---------------------------- MODULE Spec2Model ----------------------------
(***************************************************************************)
(* SynapseVisionLab: the Recording (EEGData), the file codec               *)
(* (EEGFileHandler), the signal operations and montage engine              *)
(* (SignalProcessor) and the spectrogram handler of MainWindow.            *)
(*                                                                         *)
(* Text (QString) is a sequence of character codes, so that suffix         *)
(* stripping, substring search and ordering are computed as Qt computes    *)
(* them.  A double is a record: cls = "fin" for the rational v/d, or       *)
(* "nan", or "inf" with v = 1 / -1 for the sign.                           *)
(***************************************************************************)
EXTENDS Integers, Sequences, FiniteSets, TLC

VARIABLES
    m_channels,        \* EEGData::m_channels, a sequence of EEGChannel
    m_patientInfo,     \* EEGData::m_patientInfo
    m_recordingInfo,   \* EEGData::m_recordingInfo
    m_startDateTime,   \* EEGData::m_startDateTime
    gBandpassFilter,   \* SignalProcessor::gBandpassFilter (global instance)
    pre,               \* the channels as they were when the last in-place operation began
    lastOp,            \* what the last operation was and what it returned
    nOps,              \* in-place operations applied so far
    bpCalls,           \* the calls of bandpassFilter so far: arguments and output
    ub,                \* TRUE once an operation has run into undefined behaviour
    m_currentFilePath, \* MainWindow: the path of the file on screen, "" for none
    disk,              \* the files on disk, by path
    asLoaded           \* the channels as the last successful open loaded them

vars == <<m_channels, m_patientInfo, m_recordingInfo, m_startDateTime,
          gBandpassFilter, pre, lastOp, nOps, bpCalls, ub,
          m_currentFilePath, disk, asLoaded>>

recVars == <<m_channels, m_patientInfo, m_recordingInfo, m_startDateTime>>

\* the variables of a session of MainWindow
session == <<m_currentFilePath, disk, asLoaded>>

(***************************************************************************)
(* Bounds of the model.                                                    *)
(***************************************************************************)
MaxSig == 2        \* signals declared by an EDF header
MaxRaw == 4        \* 16-bit samples in the data area of an EDF file
MaxDecSig == 2     \* signals declared by an EDF header that is decoded
MaxDecRaw == 12    \* 16-bit samples in the data area of such a file
MaxWideSig == 34   \* signals declared by an EDF header with many signals
MaxCsvCh == 2      \* channels of a Recording saved as CSV
MaxCsvLen == 2     \* samples of such a channel
MaxOpsCh == 2      \* channels of a Recording an indexed operation is applied to
MaxOpsLen == 4     \* samples of such a channel
MaxSession == 4    \* handlers run in one session of MainWindow
MaxSessionSig == 3 \* signals of the EDF file a session starts with
MaxCh == 3         \* channels of a Recording a montage is applied to
MaxLen == 2        \* samples of such a channel
MaxMontage == 2    \* montages applied in a row
MaxFinCh == 3       \* channels of a Recording with finite samples
MaxFinLen == 2      \* samples of such a channel
MaxSamples == 400  \* samples of the channel a spectrogram is asked for
MaxFilterOps == 2  \* band-pass filters applied in a row
MaxFLen == 2       \* samples of a channel that is filtered
FilterMod == 3     \* sample values of the filter model are integers modulo this
MaxWLen == 3       \* samples of a channel a time window is extracted from
MaxTime == 4       \* latest start of a time window, in units of 1/TimeDen s
TimeDen == 2       \* times are whole multiples of 1/TimeDen seconds

(***************************************************************************)
(* Text.                                                                   *)
(***************************************************************************)
T_empty == << >>
T_C3 == <<67, 51>>
T_C4 == <<67, 52>>
T_Fz == <<70, 122>>
T_Cz == <<67, 122>>
T_Pz == <<80, 122>>
T_Oz == <<79, 122>>
T_F3 == <<70, 51>>
T_F4 == <<70, 52>>
T_C10 == <<67, 49, 48>>
T_C12 == <<67, 49, 50>>
T_Annot == <<69, 68, 70, 32, 65, 110, 110, 111, 116, 97, 116, 105, 111, 110, 115>>
T_Annotation == <<65, 110, 110, 111, 116, 97, 116, 105, 111, 110>>
T_EDFAnnotations == T_Annot
T_annotations == <<97, 110, 110, 111, 116, 97, 116, 105, 111, 110, 115>>
T_A_comma_B == <<65, 44, 66>>
T_uV == <<117, 86>>
T_microV == <<181, 86>>
T_CH == <<67, 72>>
T_Channel_ == <<67, 104, 97, 110, 110, 101, 108, 95>>
T_CSVImport == <<67, 83, 86, 32, 73, 109, 112, 111, 114, 116>>
T_Time == <<84, 105, 109, 101, 40, 115, 41>>
T_patient == <<80, 49>>
T_rec == <<82, 49>>
T_base == <<102>>

IsDigit(c) == c \in 48..57

ToLower(c) == IF c \in 65..90 THEN c + 32 ELSE c

\* QString::contains(sub, Qt::CaseInsensitive)
ContainsCI(s, sub) ==
    \E i \in 0..(Len(s) - Len(sub)) :
        \A k \in 1..Len(sub) : ToLower(s[i + k]) = ToLower(sub[k])

\* QString::contains(QChar)
ContainsChar(s, c) == \E i \in 1..Len(s) : s[i] = c

\* QString::number(int) for 0 <= n <= 99
NumberText(n) == IF n < 10 THEN <<48 + n>> ELSE <<48 + (n \div 10), 48 + (n % 10)>>

(***************************************************************************)
(* C++ integer division truncates toward zero.                             *)
(***************************************************************************)
TruncDiv(a, b) ==
    IF (a >= 0) = (b > 0) THEN (IF a >= 0 THEN a \div b ELSE (-a) \div (-b))
    ELSE (IF a >= 0 THEN -(a \div (-b)) ELSE -((-a) \div b))

Min(a, b) == IF a < b THEN a ELSE b
Max(a, b) == IF a > b THEN a ELSE b

RECURSIVE SumSeq(_)
SumSeq(s) == IF s = << >> THEN 0 ELSE Head(s) + SumSeq(Tail(s))

(***************************************************************************)
(* Doubles.                                                                *)
(***************************************************************************)
RECURSIVE GCD(_, _)
GCD(a, b) == IF b = 0 THEN a ELSE GCD(b, a % b)

Abs(n) == IF n < 0 THEN -n ELSE n

\* the finite double n/d (d > 0), in lowest terms
Rat(n, d) ==
    LET g == GCD(Abs(n), d) IN [cls |-> "fin", v |-> n \div g, d |-> d \div g]

Fin(n) == [cls |-> "fin", v |-> n, d |-> 1]
NaN == [cls |-> "nan", v |-> 0, d |-> 1]
PInf == [cls |-> "inf", v |-> 1, d |-> 1]
NInf == [cls |-> "inf", v |-> -1, d |-> 1]
Zero == Fin(0)

\* std::isfinite, std::isnan
isfinite(x) == x.cls = "fin"
isnan(x) == x.cls = "nan"

dNeg(a) == [a EXCEPT !.v = -@]

\* IEEE 754 addition and subtraction (rounding apart)
dAdd(a, b) ==
    IF isnan(a) \/ isnan(b) THEN NaN
    ELSE IF isfinite(a) /\ isfinite(b)
         THEN LET g == GCD(a.d, b.d)
              IN  Rat(a.v * (b.d \div g) + b.v * (a.d \div g), (a.d \div g) * b.d)
    ELSE IF isfinite(b) THEN a
    ELSE IF isfinite(a) THEN b
    ELSE IF a.v = b.v THEN a ELSE NaN

dSub(a, b) == dAdd(a, dNeg(b))

\* IEEE 754 multiplication and division (rounding apart)
dMul(a, b) ==
    IF isnan(a) \/ isnan(b) THEN NaN
    ELSE IF isfinite(a) /\ isfinite(b)
         THEN LET g == GCD(Abs(a.v), b.d)
                  h == GCD(Abs(b.v), a.d)
              IN  Rat((a.v \div g) * (b.v \div h), (a.d \div h) * (b.d \div g))
    ELSE IF a.v = 0 \/ b.v = 0 THEN NaN
    ELSE IF (a.v < 0) = (b.v < 0) THEN PInf ELSE NInf

dDiv(a, b) ==
    IF isnan(a) \/ isnan(b) THEN NaN
    ELSE IF isfinite(b) /\ b.v # 0
         THEN dMul(a, IF b.v < 0 THEN Rat(-b.d, -b.v) ELSE Rat(b.d, b.v))
    ELSE IF isfinite(b) THEN (IF a.v = 0 THEN NaN ELSE IF a.v < 0 THEN NInf ELSE PInf)
    ELSE IF isfinite(a) THEN Zero
    ELSE NaN

\* a < b on doubles: false whenever one of them is NaN
dLess(a, b) ==
    IF isnan(a) \/ isnan(b) THEN FALSE
    ELSE IF isfinite(a) /\ isfinite(b) THEN a.v * b.d < b.v * a.d
    ELSE IF isfinite(a) THEN b.v > 0
    ELSE IF isfinite(b) THEN a.v < 0
    ELSE a.v < b.v

\* a * n for a 16-bit sample n
dMulInt(a, n) == IF isfinite(a) THEN Rat(a.v * n, a.d) ELSE a

\* a / n for an integer count n > 0
dDivInt(a, n) == IF isfinite(a) THEN Rat(a.v, a.d * n) ELSE a

(***************************************************************************)
(* The Recording.                                                          *)
(***************************************************************************)
\* struct EEGChannel with its default member initialisers
EEGChannel(label, unit, rate, data) ==
    [label |-> label, unit |-> unit,
     physicalMin |-> Fin(-1000), physicalMax |-> Fin(1000),
     digitalMin |-> Fin(-32768), digitalMax |-> Fin(32767),
     samplingRate |-> rate, data |-> data]

Recording(chs, patient, recinfo, start) ==
    [channels |-> chs, patientInfo |-> patient, recordingInfo |-> recinfo,
     startDateTime |-> start]

Current == Recording(m_channels, m_patientInfo, m_recordingInfo, m_startDateTime)

\* QDateTime::currentDateTime(): the readings the wall clock may give
Now == {100, 101}

\* EEGData::clear
clear(rec, now) == Recording(<< >>, T_empty, T_empty, now)

\* EEGData::addChannel
addChannel(rec, ch) == [rec EXCEPT !.channels = Append(@, ch)]


(***************************************************************************)
(* Files.  A file is what the two loaders see of it: edf is the view of    *)
(* loadEDF (where the header ends short, the header fields as parsed, the  *)
(* data area as 16-bit samples), csv the view of loadCSV (the kept lines,  *)
(* each split into its fields).                                            *)
(***************************************************************************)
\* the data area of every file: sample number k (from 1) holds RawAt(k)
RawAt(k) == 10 * k

RawArea(n) == [k \in 1..n |-> RawAt(k)]

SprVals == {-1, 0, 1, 2}

SigLabels == <<T_C3, T_Annot, T_C4, T_empty>>

\* a complete EDF header declaring n signals with samplesPerRecord sprs,
\* followed by nraw samples; the physical and digital limits are in tenths
EdfFull(n, sprs, nraw) ==
    [cut |-> "none", numSignalsOk |-> TRUE, numSignals |-> n,
     labels |-> [i \in 1..n |-> SigLabels[((i - 1) % 4) + 1]],
     physMin |-> [i \in 1..n |-> -20], physMax |-> [i \in 1..n |-> 20],
     digMin |-> [i \in 1..n |-> -10], digMax |-> [i \in 1..n |-> 10],
     samplesPerRecord |-> sprs, durationOk |-> TRUE, recordDuration |-> 1,
     raw |-> RawArea(nraw), startDT |-> 1,
     patientID |-> T_patient, recordingInfo |-> T_rec]

\* a header that ends short in section cut, or whose signal count is ns
EdfBroken(cut, nsOk, ns) ==
    [EdfFull(1, <<1>>, 0) EXCEPT !.cut = cut, !.numSignalsOk = nsOk,
                                 !.numSignals = ns]

EdfViews ==
    {EdfBroken(c, TRUE, 1) : c \in {"fixed", "labels", "minmax", "spr"}}
    \cup {EdfBroken("none", FALSE, 0), EdfBroken("none", TRUE, 0)}
    \cup UNION {{EdfFull(n, sprs, nraw) : sprs \in [1..n -> SprVals], nraw \in 0..MaxRaw} :
                   n \in 1..MaxSig}

Num(n) == [ok |-> TRUE, v |-> n, d |-> 1]
NotNum == [ok |-> FALSE, v |-> 0, d |-> 1]

\* the kept lines of a text file: the first line split into its fields
\* (header) and the later lines split into theirs (rows)
CsvView(empty, header, rows) == [empty |-> empty, header |-> header, rows |-> rows]

CsvViews ==
    { CsvView(TRUE, << >>, << >>),
      CsvView(FALSE, <<T_Time>>, << >>),
      CsvView(FALSE, <<T_Time, T_C3, T_empty>>,
              << <<Num(0), Num(1), Num(2)>>, <<Num(1), NotNum>>,
                 <<Num(2), NotNum, Num(4)>> >>),
      CsvView(FALSE, <<T_Time, T_Fz>>, << >>) }

Exts == {"edf", "csv", "bin"}

File(ext, exists, ev, cv) ==
    [ext |-> ext, exists |-> exists, edf |-> ev, csv |-> cv, baseName |-> T_base]

\* the extension decides which view is read; only a file of unknown extension
\* is read both ways, and for those the data area is empty or of full size
BothWaysEdfViews ==
    {ev \in EdfViews : Len(ev.raw) \in {0, MaxRaw}}

Files ==
    {File(e, FALSE, EdfBroken("fixed", TRUE, 1), CsvView(TRUE, << >>, << >>)) : e \in Exts}
    \cup {File("edf", TRUE, ev, CsvView(TRUE, << >>, << >>)) : ev \in EdfViews}
    \cup {File("csv", TRUE, EdfBroken("fixed", TRUE, 1), cv) : cv \in CsvViews}
    \cup {File("bin", TRUE, ev, cv) : ev \in BothWaysEdfViews, cv \in CsvViews}

(***************************************************************************)
(* loadEDF.  The result is the Recording as the loader leaves it, whether  *)
(* it returned true, whether it ran into undefined behaviour and where it  *)
(* returned.  junk is the quotient an integer division by zero yields.     *)
(***************************************************************************)
\* at names the return statement taken
LoadResult(ok, rec, u, at) == [ok |-> ok, rec |-> rec, ub |-> u, at |-> <<at>>]

\* bytes a record takes in the read loop: negative counts read nothing
RECURSIVE ReadPerRecord(_, _)
ReadPerRecord(sprs, n) ==
    IF n = 0 THEN 0 ELSE ReadPerRecord(sprs, n - 1) + Max(sprs[n], 0)

\* rawData[sig] after the read loop (rec, sig, s), all reads having succeeded
RawOf(e, sig, numRecords) ==
    LET p == e.samplesPerRecord[sig]
        size == p * numRecords
        perRec == ReadPerRecord(e.samplesPerRecord, e.numSignals)
        before == ReadPerRecord(e.samplesPerRecord, sig - 1)
    IN  IF size <= 0 THEN << >>
        ELSE IF numRecords <= 0 THEN [k \in 1..size |-> 0]   \* resize() zero-fills
        ELSE [k \in 1..size |->
                 e.raw[((k - 1) \div p) * perRec + before + ((k - 1) % p) + 1]]

RECURSIVE MinOf(_)
MinOf(s) == IF Len(s) = 1 THEN s[1] ELSE Min(s[1], MinOf(Tail(s)))
RECURSIVE MaxOf(_)
MaxOf(s) == IF Len(s) = 1 THEN s[1] ELSE Max(s[1], MaxOf(Tail(s)))

\* the "dynamic scaling section": scale = sn/sd and offset = on/od, sd, od > 0.
\* physMin, physMax, digMin and digMax are held in tenths, so that a range
\* "> 0.1" is a difference of more than 1
Calibration_atLeastTen(e, sig, raw) ==
    LET dd == e.digMax[sig] - e.digMin[sig]
        pd == e.physMax[sig] - e.physMin[sig]
        sgn == IF dd < 0 THEN -1 ELSE 1
        unit == [sn |-> 1, sd |-> 1, on |-> 0, od |-> 1]
    IN  IF Abs(dd) > 1 /\ Abs(pd) > 1
        THEN [sn |-> sgn * pd, sd |-> sgn * dd,
              on |-> sgn * (e.physMin[sig] * dd - e.digMin[sig] * pd), od |-> sgn * dd * 10]
        ELSE IF raw # << >> /\ Len(raw) >= 10
        THEN LET range == MaxOf(raw) - MinOf(raw)
                 sum == SumSeq(raw)
             IN  IF range > 0
                 THEN IF range < 100 THEN unit
                      ELSE IF range > 30000
                      THEN [sn |-> 200, sd |-> 65536,
                            on |-> -sum * 200, od |-> Len(raw) * 65536]
                      ELSE [sn |-> 100, sd |-> range,
                            on |-> -sum * 100, od |-> Len(raw) * range]
                 ELSE unit
        ELSE unit

Calibration(e, sig, raw) ==
    LET dd == e.digMax[sig] - e.digMin[sig]
        pd == e.physMax[sig] - e.physMin[sig]
        sgn == IF dd < 0 THEN -1 ELSE 1
        unit == [sn |-> 1, sd |-> 1, on |-> 0, od |-> 1]
    IN  IF Abs(dd) > 1 /\ Abs(pd) > 1
        THEN [sn |-> sgn * pd, sd |-> sgn * dd,
              on |-> sgn * (e.physMin[sig] * dd - e.digMin[sig] * pd), od |-> sgn * dd * 10]
        ELSE IF raw # << >> /\ Len(raw) > 10
        THEN LET range == MaxOf(raw) - MinOf(raw)
                 sum == SumSeq(raw)
             IN  IF range > 0
                 THEN IF range < 100 THEN unit
                      ELSE IF range > 30000
                      THEN [sn |-> 200, sd |-> 65536,
                            on |-> -sum * 200, od |-> Len(raw) * 65536]
                      ELSE [sn |-> 100, sd |-> range,
                            on |-> -sum * 100, od |-> Len(raw) * range]
                 ELSE unit
        ELSE unit

\* the conversion subtracting the offset
Convert_minusOffset(raw, c) ==
    [i \in 1..Len(raw) |-> dSub(dMulInt(Rat(c.sn, c.sd), raw[i]), Rat(c.on, c.od))]

\* channel.data[i] = rawData[sig][i] * scale + offset
Convert(raw, c) ==
    [i \in 1..Len(raw) |-> dAdd(dMulInt(Rat(c.sn, c.sd), raw[i]), Rat(c.on, c.od))]

\* the channel built for signal sig
EdfChannel(e, sig, raw) ==
    EEGChannel(IF e.labels[sig] = T_empty THEN T_CH \o NumberText(sig) ELSE e.labels[sig],
               T_microV,
               e.samplesPerRecord[sig] \div (IF e.durationOk /\ e.recordDuration > 0
                                              THEN e.recordDuration ELSE 1),
               Convert(raw, Calibration(e, sig, raw)))

\* the conversion loop comparing the labels with the letter case as written
RECURSIVE EdfChannels_caseSensitive(_, _, _)
EdfChannels_caseSensitive(e, n, numRecords) ==
    IF n = 0 THEN << >>
    ELSE LET rest == EdfChannels_caseSensitive(e, n - 1, numRecords)
             Contains(s, sub) == \E i \in 0..(Len(s) - Len(sub)) :
                                    \A k \in 1..Len(sub) : s[i + k] = sub[k]
         IN  IF Contains(e.labels[n], T_EDFAnnotations) \/ Contains(e.labels[n], T_Annotation)
             THEN rest
             ELSE Append(rest, EdfChannel(e, n, RawOf(e, n, numRecords)))

\* the conversion loop: signals 1..n in order, annotation tracks skipped
RECURSIVE EdfChannels(_, _, _)
EdfChannels(e, n, numRecords) ==
    IF n = 0 THEN << >>
    ELSE LET rest == EdfChannels(e, n - 1, numRecords)
         IN  IF ContainsCI(e.labels[n], T_EDFAnnotations) \/ ContainsCI(e.labels[n], T_Annotation)
             THEN rest
             ELSE Append(rest, EdfChannel(e, n, RawOf(e, n, numRecords)))

\* loadEDF adding the channels before the data area has been read
loadEDF_commitFirst(f, rec, now, junk) ==
    LET e == f.edf IN
    IF ~f.exists THEN LoadResult(FALSE, rec, FALSE, "open")
    ELSE IF e.cut = "fixed" THEN LoadResult(FALSE, rec, FALSE, "header")
    ELSE IF ~e.numSignalsOk \/ e.numSignals <= 0 THEN LoadResult(FALSE, rec, FALSE, "numSignals")
    ELSE IF e.cut \in {"labels", "minmax", "spr"} THEN LoadResult(FALSE, rec, FALSE, e.cut)
    ELSE
      LET cleared == clear(rec, now)
          totalSamplesPerRecord == SumSeq(e.samplesPerRecord)
          bytesPerRecord == totalSamplesPerRecord * 2
          dataSize == 2 * Len(e.raw)
          numRecords == Min(IF bytesPerRecord = 0 THEN junk
                            ELSE TruncDiv(dataSize, bytesPerRecord), 10000)
          undefined == bytesPerRecord = 0
                       \/ \E i \in 1..e.numSignals : e.samplesPerRecord[i] * numRecords < 0
          needed == numRecords * ReadPerRecord(e.samplesPerRecord, e.numSignals)
          channelsToLoad == Min(e.numSignals, 32)
          loaded == [cleared EXCEPT !.channels = EdfChannels(e, channelsToLoad, numRecords),
                                    !.patientInfo = e.patientID,
                                    !.recordingInfo = e.recordingInfo,
                                    !.startDateTime = IF e.startDT # 0 THEN e.startDT ELSE @]
      IN  IF numRecords > 0 /\ needed > Len(e.raw)
          THEN LoadResult(FALSE, [cleared EXCEPT !.channels = EdfChannels(e, channelsToLoad, 0)],
                          undefined, "sample")
          ELSE LoadResult(TRUE, loaded, undefined, "end")

loadEDF(f, rec, now, junk) ==
    LET e == f.edf IN
    IF ~f.exists THEN LoadResult(FALSE, rec, FALSE, "open")
    ELSE IF e.cut = "fixed" THEN LoadResult(FALSE, rec, FALSE, "header")
    ELSE IF ~e.numSignalsOk \/ e.numSignals <= 0 THEN LoadResult(FALSE, rec, FALSE, "numSignals")
    ELSE IF e.cut \in {"labels", "minmax", "spr"} THEN LoadResult(FALSE, rec, FALSE, e.cut)
    ELSE
      LET cleared == clear(rec, now)
          totalSamplesPerRecord == SumSeq(e.samplesPerRecord)
          bytesPerRecord == totalSamplesPerRecord * 2
          dataSize == 2 * Len(e.raw)
          numRecords == Min(IF bytesPerRecord = 0 THEN junk
                            ELSE TruncDiv(dataSize, bytesPerRecord), 10000)
          undefined == bytesPerRecord = 0
                       \/ \E i \in 1..e.numSignals : e.samplesPerRecord[i] * numRecords < 0
          needed == numRecords * ReadPerRecord(e.samplesPerRecord, e.numSignals)
          channelsToLoad == Min(e.numSignals, 32)
          loaded == [cleared EXCEPT !.channels = EdfChannels(e, channelsToLoad, numRecords),
                                    !.patientInfo = e.patientID,
                                    !.recordingInfo = e.recordingInfo,
                                    !.startDateTime = IF e.startDT # 0 THEN e.startDT ELSE @]
      IN  IF numRecords > 0 /\ needed > Len(e.raw)
          THEN LoadResult(FALSE, cleared, undefined, "sample")
          ELSE LoadResult(TRUE, loaded, undefined, "end")

(***************************************************************************)
(* loadCSV.                                                                *)
(***************************************************************************)
\* the rows whose number of values equals the number of headers
RECURSIVE KeptRows(_, _)
KeptRows(rows, width) ==
    IF rows = << >> THEN << >>
    ELSE IF Len(Head(rows)) # width THEN KeptRows(Tail(rows), width)
    ELSE <<Head(rows)>> \o KeptRows(Tail(rows), width)

CsvChannel(c, i) ==
    LET kept == KeptRows(c.rows, Len(c.header))
    IN  EEGChannel(IF c.header[i + 1] = T_empty THEN T_Channel_ \o NumberText(i)
                   ELSE c.header[i + 1],
                   T_uV, 250,
                   [r \in 1..Len(kept) |->
                       IF kept[r][i + 1].ok THEN Rat(kept[r][i + 1].v, kept[r][i + 1].d) ELSE Fin(0)])

loadCSV(f, rec, now) ==
    LET c == f.csv IN
    IF ~f.exists THEN LoadResult(FALSE, rec, FALSE, "open")
    ELSE IF c.empty THEN LoadResult(FALSE, rec, FALSE, "empty")
    ELSE
      LET cleared == clear(rec, now)
          numChannels == Len(c.header) - 1
      IN  IF Len(c.header) < 2 THEN LoadResult(FALSE, cleared, FALSE, "format")
          ELSE LoadResult(TRUE,
                          [cleared EXCEPT !.channels = [i \in 1..numChannels |-> CsvChannel(c, i)],
                                          !.patientInfo = f.baseName,
                                          !.recordingInfo = T_CSVImport],
                          FALSE, "end")

\* EEGFileHandler::loadFile
loadFile(f, rec, now, junk) ==
    IF f.ext = "edf" THEN loadEDF(f, rec, now, junk)
    ELSE IF f.ext = "csv" THEN loadCSV(f, rec, now)
    ELSE LET r1 == loadEDF(f, rec, now, junk)
             r2 == loadCSV(f, r1.rec, now)
         IN  IF r1.ok THEN r1
             ELSE [r2 EXCEPT !.ub = r1.ub \/ r2.ub, !.at = r1.at \o r2.at]

\* EEGData::loadFromFile
loadFromFile(f, rec, now, junk) == loadFile(f, clear(rec, now), now, junk)

(***************************************************************************)
(* Operations on the Recording.                                            *)
(***************************************************************************)
JunkInts == {-1, 0, 1}

\* pre when the last operation was not one that works in place
NoSnapshot == << >>

Commit(rec) ==
    /\ m_channels' = rec.channels
    /\ m_patientInfo' = rec.patientInfo
    /\ m_recordingInfo' = rec.recordingInfo
    /\ m_startDateTime' = rec.startDateTime

\* MainWindow::onFileOpen: m_eegData->loadFromFile(filePath)
LoadFromFile(f, now, junk) ==
    LET r == loadFromFile(f, Current, now, junk) IN
    /\ Commit(r.rec)
    /\ pre' = NoSnapshot
    /\ lastOp' = [op |-> "load", ok |-> r.ok, ext |-> f.ext, at |-> r.at,
                  declared |-> IF f.exists /\ f.ext # "csv" /\ f.edf.numSignalsOk
                               THEN f.edf.numSignals ELSE 0]
    /\ ub' = (ub \/ r.ub)
    /\ UNCHANGED <<gBandpassFilter, nOps, bpCalls, session>>

\* BandpassFilter::BandpassFilter(): nothing designed, the delay line at rest
NoFilter ==
    [lastSamplingRate |-> 0, lastLowCut |-> 0, lastHighCut |-> 0, coeffs |-> 0, state |-> 0]

InitLoad ==
    /\ m_channels = << >>
    /\ m_patientInfo = T_empty
    /\ m_recordingInfo = T_empty
    /\ m_startDateTime \in Now
    /\ gBandpassFilter = NoFilter
    /\ pre = NoSnapshot
    /\ lastOp = [op |-> "new"]
    /\ nOps = 0
    /\ bpCalls = {}
    /\ ub = FALSE
    /\ m_currentFilePath = ""
    /\ disk = << >>
    /\ asLoaded = << >>

\* whether loadEDF divides by zero on this file
DividesByZero(f) ==
    /\ f.exists /\ f.ext # "csv" /\ f.edf.cut = "none"
    /\ f.edf.numSignalsOk /\ f.edf.numSignals > 0
    /\ SumSeq(f.edf.samplesPerRecord) = 0

NextLoad ==
    \E f \in Files, now \in Now :
        \E junk \in (IF DividesByZero(f) THEN JunkInts ELSE {0}) : LoadFromFile(f, now, junk)

SpecLoad == InitLoad /\ [][NextLoad]_vars

(***************************************************************************)
(* Decoding one EDF file: the file is chosen, then loaded.  The headers    *)
(* are complete; they differ in the signals, the samplesPerRecord, the     *)
(* size and the values of the data area, the labels and the calibration.   *)
(***************************************************************************)
\* the data area as a ramp: sample number k (from 1) holds step * (k - 6)
RawRamp(nraw, step) == [k \in 1..nraw |-> step * (k - 6)]

RawSteps == {0, 3, 10, 3000, 3001}

\* physMin, physMax, digMin, digMax in tenths: usable limits, a digital range
\* of 0.2, a reversed digital range
GoodLimits ==
    { [physMin |-> -150, physMax |-> 250, digMin |-> -100, digMax |-> 100],
      [physMin |-> 0, physMax |-> 100, digMin |-> 0, digMax |-> 2],
      [physMin |-> -150, physMax |-> 250, digMin |-> 100, digMax |-> -100] }

\* a digital range of 0.1, equal physical limits
CorruptLimits ==
    { [physMin |-> 0, physMax |-> 100, digMin |-> 0, digMax |-> 1],
      [physMin |-> 50, physMax |-> 50, digMin |-> -100, digMax |-> 100] }

DecodeLabels == { <<T_C3, T_Annot, T_C4, T_empty>>, <<T_C4, T_empty, T_Annot, T_C3>> }

EdfDecode(n, sprs, nraw, step, lim, labels) ==
    [EdfFull(n, sprs, nraw) EXCEPT
        !.labels = [i \in 1..n |-> labels[((i - 1) % 4) + 1]],
        !.physMin = [i \in 1..n |-> lim.physMin], !.physMax = [i \in 1..n |-> lim.physMax],
        !.digMin = [i \in 1..n |-> lim.digMin], !.digMax = [i \in 1..n |-> lim.digMax],
        !.raw = RawRamp(nraw, step)]

\* the step of the ramp with the limits: corrupted limits with every ramp
StepsAndLimits == ({10} \X GoodLimits) \cup (RawSteps \X CorruptLimits)

\* labels of a header with many signals: no annotation track, or one written
\* in lower case
WideLabels == { <<T_C3, T_C4, T_F3, T_F4>>, <<T_C3, T_annotations, T_C4, T_empty>> }

\* a header of n signals of one sample per record each
EdfWide(n, records, labels) ==
    EdfDecode(n, [i \in 1..n |-> 1], n * records, 10,
              [physMin |-> -150, physMax |-> 250, digMin |-> -100, digMax |-> 100], labels)

EdfFileOf(e) == File("edf", TRUE, e, CsvView(TRUE, << >>, << >>))

\* MainWindow::onFileOpen on the chosen file
LoadChosenFile(now, junk) ==
    /\ lastOp.op = "chosen"
    /\ LET r == loadFromFile(EdfFileOf(lastOp.edf), Current, now, junk) IN
       /\ Commit(r.rec)
       /\ lastOp' = [op |-> "load", ok |-> r.ok, ext |-> "edf", at |-> r.at,
                     declared |-> lastOp.edf.numSignals, edf |-> lastOp.edf]
       /\ ub' = (ub \/ r.ub)
    /\ pre' = NoSnapshot
    /\ UNCHANGED <<gBandpassFilter, nOps, bpCalls, session>>

InitDecode ==
    /\ m_channels = << >>
    /\ m_patientInfo = T_empty
    /\ m_recordingInfo = T_empty
    /\ m_startDateTime = 100
    /\ gBandpassFilter = NoFilter
    /\ pre = NoSnapshot
    /\ \/ \E n \in 1..MaxDecSig :
             \E sprs \in [1..n -> SprVals], nraw \in 0..MaxDecRaw,
                sl \in StepsAndLimits, labels \in DecodeLabels :
                 lastOp = [op |-> "chosen",
                           edf |-> EdfDecode(n, sprs, nraw, sl[1], sl[2], labels)]
       \/ \E n \in 31..MaxWideSig, records \in 0..2, labels \in WideLabels :
             lastOp = [op |-> "chosen", edf |-> EdfWide(n, records, labels)]
    /\ nOps = 0
    /\ bpCalls = {}
    /\ ub = FALSE
    /\ m_currentFilePath = ""
    /\ disk = << >>
    /\ asLoaded = << >>

NextDecode ==
    \E now \in Now :
        \E junk \in (IF DividesByZero(EdfFileOf(lastOp.edf)) THEN JunkInts ELSE {0}) :
            LoadChosenFile(now, junk)

SpecDecode == InitDecode /\ [][NextDecode]_vars

(***************************************************************************)
(* SignalProcessor: montages.  allChannelData is a sequence of channels,   *)
(* each a sequence of doubles; channel numbers run from 1 and sample       *)
(* indices from 0 as in the code.  Every montage takes its sample count    *)
(* from channel 0 (here 1) and indexes every channel up to it: a read      *)
(* outside a channel is undefined and yields junk, a write outside it is   *)
(* undefined and is dropped.                                               *)
(***************************************************************************)
At(d, ch, s, junk) == IF s < Len(d[ch]) THEN d[ch][s + 1] ELSE junk

\* sum and count of the finite values of channels 1..ch at sample s
RECURSIVE FiniteSum(_, _, _, _)
FiniteSum(d, ch, s, junk) ==
    IF ch = 0 THEN [sum |-> Zero, n |-> 0]
    ELSE LET r == FiniteSum(d, ch - 1, s, junk)
             val == At(d, ch, s, junk)
         IN  IF isfinite(val) THEN [sum |-> dAdd(r.sum, val), n |-> r.n + 1] ELSE r

\* applyAverageReference dividing the sum by one more than the valid channels
applyAverageReference_countOff(d, junk) ==
    IF d = << >> THEN d
    ELSE
      LET numSamples == Len(d[1])
          numChannels == Len(d)
          average(s) == LET r == FiniteSum(d, numChannels, s, junk)
                        IN  IF r.n > 0 THEN dDivInt(r.sum, r.n + 1) ELSE Zero
          original(ch, s) == LET val == At(d, ch, s, junk)
                             IN  IF isfinite(val) THEN val ELSE Zero
          result(ch, s) == LET r == dSub(original(ch, s), average(s))
                           IN  IF isfinite(r) THEN r ELSE Zero
      IN  IF numSamples = 0 THEN d
          ELSE [ch \in 1..numChannels |->
                   [i \in 1..Len(d[ch]) |->
                       IF i - 1 < numSamples THEN result(ch, i - 1) ELSE d[ch][i]]]

applyAverageReference(d, junk) ==
    IF d = << >> THEN d
    ELSE
      LET numSamples == Len(d[1])
          numChannels == Len(d)
          average(s) == LET r == FiniteSum(d, numChannels, s, junk)
                        IN  IF r.n > 0 THEN dDivInt(r.sum, r.n) ELSE Zero
          original(ch, s) == LET val == At(d, ch, s, junk)
                             IN  IF isfinite(val) THEN val ELSE Zero
          result(ch, s) == LET r == dSub(original(ch, s), average(s))
                           IN  IF isfinite(r) THEN r ELSE Zero
      IN  IF numSamples = 0 THEN d
          ELSE [ch \in 1..numChannels |->
                   [i \in 1..Len(d[ch]) |->
                       IF i - 1 < numSamples THEN result(ch, i - 1) ELSE d[ch][i]]]

\* QString operator<: by code unit, a proper prefix first
RECURSIVE TextLess(_, _)
TextLess(a, b) ==
    IF b = << >> THEN FALSE
    ELSE IF a = << >> THEN TRUE
    ELSE IF Head(a) # Head(b) THEN Head(a) < Head(b)
    ELSE TextLess(Tail(a), Tail(b))

\* the keys of a QMap in iteration order
RECURSIVE SortTexts(_)
SortTexts(S) ==
    IF S = {} THEN << >>
    ELSE LET m == CHOOSE x \in S : \A y \in S \ {x} : TextLess(x, y)
         IN  <<m>> \o SortTexts(S \ {m})

\* the label with its trailing digits chopped
RECURSIVE baseName(_)
baseName(label) ==
    IF label # << >> /\ IsDigit(label[Len(label)])
    THEN baseName(SubSeq(label, 1, Len(label) - 1))
    ELSE label

OddDigits == {51, 49, 53, 55, 57}
EvenDigits == {52, 50, 54, 56, 48}

\* the test that sends a channel to the left list
isLeft(label) == \E c \in OddDigits : ContainsChar(label, c)

\* the test that sends a channel, not sent left, to the right list
isRight(label) == \E c \in EvenDigits : ContainsChar(label, c)

\* the list ("left" or "right") channel i of the group goes to, if any
sideOf(label) ==
    IF isLeft(label) THEN "left" ELSE IF isRight(label) THEN "right" ELSE "none"

\* the channels among 1..n of the group of base name key that go to list side,
\* in channel order
RECURSIVE GroupSide(_, _, _, _)
GroupSide(labels, key, side, n) ==
    IF n = 0 THEN << >>
    ELSE IF baseName(labels[n]) = key /\ sideOf(labels[n]) = side
         THEN Append(GroupSide(labels, key, side, n - 1), n)
         ELSE GroupSide(labels, key, side, n - 1)

\* the pairs formed inside the group of base name key
GroupPairs(labels, key) ==
    LET left == GroupSide(labels, key, "left", Len(labels))
        right == GroupSide(labels, key, "right", Len(labels))
    IN  [i \in 1..Min(Len(left), Len(right)) |-> <<left[i], right[i]>>]

RECURSIVE ConcatPairs(_, _)
ConcatPairs(labels, keys) ==
    IF keys = << >> THEN << >>
    ELSE GroupPairs(labels, Head(keys)) \o ConcatPairs(labels, Tail(keys))

\* strategy 1: pairs by label, group after group in key order
LabelPairs(labels) ==
    ConcatPairs(labels, SortTexts({baseName(labels[i]) : i \in 1..Len(labels)}))

\* the pairs applyBipolarMontage computes from: by label, else consecutive
BipolarPairs(labels) ==
    LET byLabel == LabelPairs(labels)
    IN  IF byLabel # << >> THEN byLabel
        ELSE [i \in 1..(Len(labels) - 1) |-> <<i, i + 1>>]

bothFinite(d, pair, j, junk) ==
    isfinite(At(d, pair[1], j, junk)) /\ isfinite(At(d, pair[2], j, junk))

\* the difference channels of the pairs that have any valid sample
RECURSIVE bipolarData(_, _, _)
bipolarData(d, pairs, junk) ==
    IF pairs = << >> THEN << >>
    ELSE LET pair == Head(pairs)
             numSamples == Len(d[1])
             diff == [i \in 1..numSamples |->
                        IF bothFinite(d, pair, i - 1, junk)
                        THEN dSub(At(d, pair[1], i - 1, junk), At(d, pair[2], i - 1, junk))
                        ELSE Zero]
             hasValidData == \E j \in 0..(numSamples - 1) : bothFinite(d, pair, j, junk)
         IN  (IF hasValidData THEN <<diff>> ELSE << >>) \o bipolarData(d, Tail(pairs), junk)

applyBipolarMontage(d, labels, junk) ==
    LET pairs == BipolarPairs(labels)
        out == bipolarData(d, pairs, junk)
    IN  IF Len(d) < 2 THEN d
        ELSE IF pairs = << >> THEN d
        ELSE IF out # << >> THEN out ELSE d

\* applyLaplacianMontage writing into allChannelData itself, so that the left
\* neighbour read for channel ch is the value already updated in this pass
applyLaplacianMontage_inPlace(d, junk) ==
    IF Len(d) < 3 THEN d
    ELSE
      LET clean == [ch \in 1..Len(d) |->
                       [i \in 1..Len(d[ch]) |-> IF isfinite(d[ch][i]) THEN d[ch][i] ELSE Zero]]
          numChannels == Len(d)
          numSamples == Len(clean[1])
          RECURSIVE value(_, _)
          value(ch, s) ==
              LET left == IF ch > 1 THEN value(ch - 1, s) ELSE Zero
                  right == IF ch < numChannels THEN At(clean, ch + 1, s, junk) ELSE Zero
                  neighborCount == (IF ch > 1 /\ isfinite(left) THEN 1 ELSE 0)
                                   + (IF ch < numChannels /\ isfinite(right) THEN 1 ELSE 0)
                  neighborSum == dAdd(IF ch > 1 /\ isfinite(left) THEN left ELSE Zero,
                                      IF ch < numChannels /\ isfinite(right) THEN right ELSE Zero)
                  currentVal == At(clean, ch, s, junk)
                  r == IF neighborCount > 0 /\ isfinite(currentVal)
                       THEN dSub(currentVal, dDivInt(neighborSum, neighborCount))
                       ELSE IF isfinite(currentVal) THEN currentVal ELSE Zero
              IN  IF isfinite(r) THEN r ELSE Zero
      IN  [ch \in 1..numChannels |->
              [i \in 1..Len(clean[ch]) |->
                  IF i - 1 < numSamples THEN value(ch, i - 1) ELSE clean[ch][i]]]

applyLaplacianMontage(d, junk) ==
    IF Len(d) < 3 THEN d
    ELSE
      LET clean == [ch \in 1..Len(d) |->
                       [i \in 1..Len(d[ch]) |-> IF isfinite(d[ch][i]) THEN d[ch][i] ELSE Zero]]
          numChannels == Len(d)
          numSamples == Len(clean[1])
          Neighbours(ch) == {n \in {ch - 1, ch + 1} : n >= 1 /\ n <= numChannels}
          value(ch, s) ==
              LET fin == {n \in Neighbours(ch) : isfinite(At(clean, n, s, junk))}
                  neighborCount == Cardinality(fin)
                  neighborSum ==
                      dAdd(IF ch - 1 \in fin THEN At(clean, ch - 1, s, junk) ELSE Zero,
                           IF ch + 1 \in fin THEN At(clean, ch + 1, s, junk) ELSE Zero)
                  currentVal == At(clean, ch, s, junk)
                  r == IF neighborCount > 0 /\ isfinite(currentVal)
                       THEN dSub(currentVal, dDivInt(neighborSum, neighborCount))
                       ELSE IF isfinite(currentVal) THEN currentVal ELSE Zero
              IN  IF isfinite(r) THEN r ELSE Zero
      IN  [ch \in 1..numChannels |->
              [i \in 1..Len(clean[ch]) |->
                  IF i - 1 < numSamples THEN value(ch, i - 1) ELSE clean[ch][i]]]

Montages == {"Bipolar", "AverageReference", "Laplacian"}

\* SignalProcessor::applyMontage
applyMontage(d, labels, montage, junk) ==
    IF d = << >> THEN d
    ELSE
      LET noNaN == [ch \in 1..Len(d) |->
                       [i \in 1..Len(d[ch]) |-> IF isnan(d[ch][i]) THEN Zero ELSE d[ch][i]]]
      IN  CASE montage = "AverageReference" -> applyAverageReference(noNaN, junk)
            [] montage = "Bipolar" -> applyBipolarMontage(noNaN, labels, junk)
            [] montage = "Laplacian" -> applyLaplacianMontage(noNaN, junk)

\* the elements allChannelData[ch][s] the montage indexes
MontageAccesses(d, labels, montage) ==
    LET all == {<<ch, s>> : ch \in 1..Len(d), s \in 0..(Len(d[1]) - 1)}
        pairs == BipolarPairs(labels)
        paired == {pairs[i][1] : i \in 1..Len(pairs)} \cup {pairs[i][2] : i \in 1..Len(pairs)}
    IN  IF d = << >> THEN {}
        ELSE CASE montage = "AverageReference" -> all
               [] montage = "Bipolar" ->
                    IF Len(d) < 2 THEN {} ELSE {a \in all : a[1] \in paired}
               [] montage = "Laplacian" -> IF Len(d) < 3 THEN {} ELSE all

OutOfBounds(d, labels, montage) ==
    \E a \in MontageAccesses(d, labels, montage) : a[2] >= Len(d[a[1]])

\* EEGData::applyMontage
EEGData_applyMontage(chs, montage, junk) ==
    LET allData == [i \in 1..Len(chs) |-> chs[i].data]
        labels == [i \in 1..Len(chs) |-> chs[i].label]
        out == applyMontage(allData, labels, montage, junk)
    IN  [i \in 1..Len(chs) |->
            IF i <= Len(out) THEN [chs[i] EXCEPT !.data = out[i]] ELSE chs[i]]

(***************************************************************************)
(* Montages on a Recording.                                                *)
(***************************************************************************)
SampleVals == {Fin(12), NaN, PInf}

\* what a read outside a channel may yield
JunkVals == {Fin(36), NaN}

DataSeqs == UNION {[1..len -> SampleVals] : len \in 0..MaxLen}

\* channel labels by position: one list pairs by label, one does not, one
\* has suffixes of two digits
LabelLists ==
    { <<T_C3, T_C4, T_Fz, T_F3, T_F4>>, <<T_Fz, T_Cz, T_Pz, T_Oz, T_Fz>>,
      <<T_C3, T_C10, T_C4, T_Fz, T_C12>> }

DataOf(chs) == [i \in 1..Len(chs) |-> chs[i].data]
LabelsOf(chs) == [i \in 1..Len(chs) |-> chs[i].label]

\* MainWindow::onMontageApply: m_eegData->applyMontage(montage)
ApplyMontage(montage, junk) ==
    /\ nOps < MaxMontage
    /\ m_channels' = EEGData_applyMontage(m_channels, montage, junk)
    /\ pre' = m_channels
    /\ lastOp' = [op |-> "montage", kind |-> montage, junk |-> junk]
    /\ nOps' = nOps + 1
    /\ ub' = (ub \/ OutOfBounds(DataOf(m_channels), LabelsOf(m_channels), montage))
    /\ UNCHANGED <<m_patientInfo, m_recordingInfo, m_startDateTime, gBandpassFilter, bpCalls, session>>

InitMontage ==
    /\ \E n \in 0..MaxCh :
          \E data \in [1..n -> DataSeqs], list \in LabelLists :
              m_channels = [i \in 1..n |-> EEGChannel(list[i], T_uV, 250, data[i])]
    /\ m_patientInfo = T_patient
    /\ m_recordingInfo = T_rec
    /\ m_startDateTime = 1
    /\ gBandpassFilter = NoFilter
    /\ pre = NoSnapshot
    /\ lastOp = [op |-> "new"]
    /\ nOps = 0
    /\ bpCalls = {}
    /\ ub = FALSE
    /\ m_currentFilePath = ""
    /\ disk = << >>
    /\ asLoaded = << >>

NextMontage ==
    \E montage \in Montages :
        \E junk \in (IF OutOfBounds(DataOf(m_channels), LabelsOf(m_channels), montage)
                     THEN JunkVals ELSE {Zero}) : ApplyMontage(montage, junk)

SpecMontage == InitMontage /\ [][NextMontage]_vars

(***************************************************************************)
(* Montages on channels of equal length whose samples are all finite: the  *)
(* inputs applyAverageReference and applyLaplacianMontage are meant for.   *)
(***************************************************************************)
FiniteVals == {Fin(12), Fin(-5)}

FiniteLabels == <<T_Fz, T_Cz, T_Pz, T_Oz>>

FiniteInputs ==
    UNION {{[i \in 1..n |-> EEGChannel(FiniteLabels[((i - 1) % 4) + 1], T_uV, 250, data[i])] :
               data \in [1..n -> [1..len -> FiniteVals]]} :
           n \in 0..MaxFinCh, len \in 0..MaxFinLen}

InitFinite ==
    /\ m_channels \in FiniteInputs
    /\ m_patientInfo = T_patient
    /\ m_recordingInfo = T_rec
    /\ m_startDateTime = 1
    /\ gBandpassFilter = NoFilter
    /\ pre = NoSnapshot
    /\ lastOp = [op |-> "new"]
    /\ nOps = 0
    /\ bpCalls = {}
    /\ ub = FALSE
    /\ m_currentFilePath = ""
    /\ disk = << >>
    /\ asLoaded = << >>

NextFinite == \E montage \in Montages : ApplyMontage(montage, Zero)

SpecFinite == InitFinite /\ [][NextFinite]_vars

(***************************************************************************)
(* MainWindow::showSpectrogram.  The transform itself is not modelled:     *)
(* what is kept is the window count, whether the handler reported          *)
(* insufficient data, and the indices of channel.data it read.             *)
(***************************************************************************)
windowSize == 256
hopSize == 64

\* int numWindows = (channel.data.size() - windowSize) / hopSize + 1
numWindowsOf(size) == TruncDiv(size - windowSize, hopSize) + 1

\* the indices read by windows 0..wins-1 of the loop
WindowReads(wins) ==
    {win * hopSize + i : win \in 0..(wins - 1), i \in 0..(windowSize - 1)}

\* the loop runs until win = numWindows or until the progress dialog is
\* cancelled, which is polled at the top of window cancelAt
ShowSpectrogram(channelIndex, cancelAt) ==
    LET valid == ~(channelIndex < 0 \/ channelIndex >= Len(m_channels))
        size == IF valid THEN Len(m_channels[channelIndex + 1].data) ELSE 0
        numWindows == numWindowsOf(size)
        reads == IF valid /\ numWindows >= 1 THEN WindowReads(Min(cancelAt, numWindows)) ELSE {}
    IN  /\ cancelAt <= Max(numWindows, 0)
        /\ lastOp' = [op |-> "spectrogram", index |-> channelIndex, valid |-> valid,
                      numWindows |-> numWindows,
                      insufficient |-> valid /\ numWindows < 1,
                      cancelled |-> valid /\ numWindows >= 1 /\ cancelAt < numWindows,
                      reads |-> reads]
        /\ ub' = (ub \/ \E r \in reads : r >= size)
        /\ UNCHANGED <<recVars, gBandpassFilter, pre, nOps, bpCalls, session>>

\* a channel of n samples
SpectroChannel(n) == EEGChannel(T_C3, T_uV, 250, [i \in 1..n |-> Fin(0)])

InitSpectro ==
    /\ m_channels \in {<<SpectroChannel(n)>> : n \in 0..MaxSamples}
    /\ m_patientInfo = T_patient
    /\ m_recordingInfo = T_rec
    /\ m_startDateTime = 1
    /\ gBandpassFilter = NoFilter
    /\ pre = NoSnapshot
    /\ lastOp = [op |-> "new"]
    /\ nOps = 0
    /\ bpCalls = {}
    /\ ub = FALSE
    /\ m_currentFilePath = ""
    /\ disk = << >>
    /\ asLoaded = << >>

NextSpectro ==
    \E channelIndex \in -1..1, cancelAt \in 0..(MaxSamples \div hopSize) :
        ShowSpectrogram(channelIndex, cancelAt)

SpecSpectro == InitSpectro /\ [][NextSpectro]_vars

(***************************************************************************)
(* SignalProcessor::BandpassFilter and bandpassFilter.  The recursion of   *)
(* Iir::Butterworth::BandPass<4> is kept as a first-order recursion over   *)
(* integers modulo FilterMod: filter(x) depends on x, on the coefficients  *)
(* the last setup() computed and on the delay line the previous call of    *)
(* filter() left, and neither setup() nor apply() resets the delay line.   *)
(***************************************************************************)
\* filter.setup(fs, lowCut, highCut): the coefficients
setup(fs, lowCut, highCut) == 1 + ((fs + lowCut + highCut) % 2)

\* BandpassFilter::design
design(g, lowCut, highCut, fs) ==
    IF fs = g.lastSamplingRate /\ lowCut = g.lastLowCut /\ highCut = g.lastHighCut
    THEN g
    ELSE [g EXCEPT !.coeffs = setup(fs, lowCut, highCut),
                   !.lastSamplingRate = fs, !.lastLowCut = lowCut, !.lastHighCut = highCut]

\* BandpassFilter::apply: sample = filter.filter(sample), first to last
RECURSIVE apply(_, _)
apply(g, data) ==
    IF data = << >> THEN [g |-> g, data |-> << >>]
    ELSE LET y == (Head(data).v + g.state + g.coeffs) % FilterMod
             rest == apply([g EXCEPT !.state = y], Tail(data))
         IN  [g |-> rest.g, data |-> <<Fin(y)>> \o rest.data]

\* std::reverse
Reverse(data) == [i \in 1..Len(data) |-> data[Len(data) + 1 - i]]

\* BandpassFilter::applyZeroPhase
applyZeroPhase(g, data) ==
    LET forward == apply(g, data)
        backward == apply(forward.g, Reverse(forward.data))
    IN  [g |-> backward.g, data |-> Reverse(backward.data)]

\* SignalProcessor::bandpassFilter with the highCut bound taken at the
\* sampling rate instead of at half of it
bandpassFilter_noNyquist(data, samplingRate, lowCutHz, highCutHz, g) ==
    IF data = << >> \/ samplingRate <= 0 THEN [g |-> g, data |-> data]
    ELSE IF lowCutHz <= 0 \/ highCutHz <= lowCutHz \/ highCutHz >= samplingRate
    THEN [g |-> g, data |-> data]
    ELSE applyZeroPhase(design(g, lowCutHz, highCutHz, samplingRate), data)

\* SignalProcessor::bandpassFilter on the global instance g
bandpassFilter(data, samplingRate, lowCutHz, highCutHz, g) ==
    IF data = << >> \/ samplingRate <= 0 THEN [g |-> g, data |-> data]
    ELSE IF lowCutHz <= 0 \/ highCutHz <= lowCutHz \/ 2 * highCutHz >= samplingRate
    THEN [g |-> g, data |-> data]
    ELSE applyZeroPhase(design(g, lowCutHz, highCutHz, samplingRate), data)

\* EEGData::applyFilter
ApplyFilter(channelIndex, lowCut, highCut) ==
    LET valid == ~(channelIndex < 0 \/ channelIndex >= Len(m_channels))
        channel == m_channels[channelIndex + 1]
        r == bandpassFilter(channel.data, channel.samplingRate, lowCut, highCut, gBandpassFilter)
    IN  /\ nOps < MaxFilterOps
        /\ nOps' = nOps + 1
        /\ pre' = m_channels
        /\ lastOp' = [op |-> "filter", index |-> channelIndex, valid |-> valid,
                      lowCut |-> lowCut, highCut |-> highCut,
                      emitted |-> IF valid THEN <<"dataChanged">> ELSE << >>]
        /\ IF valid
           THEN /\ m_channels' = [m_channels EXCEPT ![channelIndex + 1].data = r.data]
                /\ gBandpassFilter' = r.g
                /\ bpCalls' = bpCalls \cup
                      {[data |-> channel.data, samplingRate |-> channel.samplingRate,
                        lowCutHz |-> lowCut, highCutHz |-> highCut, out |-> r.data]}
           ELSE UNCHANGED <<m_channels, gBandpassFilter, bpCalls>>
        /\ UNCHANGED <<m_patientInfo, m_recordingInfo, m_startDateTime, ub, session>>

FilterSamples == {Fin(0), Fin(1)}
FilterRates == {0, 100, 250}
LowCuts == {0, 1}
HighCuts == {1, 30, 125}

FilterInputs ==
    UNION {[1..n -> {EEGChannel(T_C3, T_uV, rate, data) :
                        rate \in FilterRates,
                        data \in UNION {[1..len -> FilterSamples] : len \in 0..MaxFLen}}] :
              n \in 1..2}

InitFilter ==
    /\ m_channels \in FilterInputs
    /\ m_patientInfo = T_patient
    /\ m_recordingInfo = T_rec
    /\ m_startDateTime = 1
    /\ gBandpassFilter = NoFilter
    /\ pre = NoSnapshot
    /\ lastOp = [op |-> "new"]
    /\ nOps = 0
    /\ bpCalls = {}
    /\ ub = FALSE
    /\ m_currentFilePath = ""
    /\ disk = << >>
    /\ asLoaded = << >>

NextFilter ==
    \E channelIndex \in -1..2, lowCut \in LowCuts, highCut \in HighCuts :
        ApplyFilter(channelIndex, lowCut, highCut)

SpecFilter == InitFilter /\ [][NextFilter]_vars

(***************************************************************************)
(* SignalProcessor::extractTimeWindow and EEGData::getTimeSeries.  A time  *)
(* t stands for t/TimeDen seconds, so startTime * samplingRate is the      *)
(* rational t * rate / TimeDen, which static_cast<int> truncates toward    *)
(* zero.                                                                   *)
(***************************************************************************)
extractTimeWindow(data, samplingRate, startTime, duration) ==
    IF data = << >> \/ samplingRate <= 0 THEN << >>
    ELSE
      LET startSample == Max(0, TruncDiv(startTime * samplingRate, TimeDen))
          endSample == Min(Len(data) - 1,
                           TruncDiv((startTime + duration) * samplingRate, TimeDen))
      IN  IF startSample <= endSample
          THEN [i \in 1..(endSample - startSample + 1) |-> data[startSample + i]]
          ELSE << >>

\* EEGData::getTimeSeries (const)
GetTimeSeries(channelIndex, startTime, duration) ==
    LET valid == ~(channelIndex < 0 \/ channelIndex >= Len(m_channels))
        channel == m_channels[channelIndex + 1]
    IN  /\ lastOp' = [op |-> "window", index |-> channelIndex, valid |-> valid,
                      startTime |-> startTime, duration |-> duration, emitted |-> << >>,
                      result |-> IF valid
                                 THEN extractTimeWindow(channel.data, channel.samplingRate,
                                                        startTime, duration)
                                 ELSE << >>]
        /\ pre' = m_channels
        /\ UNCHANGED <<recVars, gBandpassFilter, nOps, bpCalls, ub, session>>

WindowRates == {-1, 0, 1, 2}

WindowInputs ==
    {<<EEGChannel(T_C3, T_uV, rate, [i \in 1..len |-> Fin(i)])>> :
        rate \in WindowRates, len \in 0..MaxWLen}

InitWindow ==
    /\ m_channels \in WindowInputs
    /\ m_patientInfo = T_patient
    /\ m_recordingInfo = T_rec
    /\ m_startDateTime = 1
    /\ gBandpassFilter = NoFilter
    /\ pre = NoSnapshot
    /\ lastOp = [op |-> "new"]
    /\ nOps = 0
    /\ bpCalls = {}
    /\ ub = FALSE
    /\ m_currentFilePath = ""
    /\ disk = << >>
    /\ asLoaded = << >>

NextWindow ==
    \E channelIndex \in -1..1, startTime \in (-MaxTime)..MaxTime, duration \in 0..MaxTime :
        GetTimeSeries(channelIndex, startTime, duration)

SpecWindow == InitWindow /\ [][NextWindow]_vars

(***************************************************************************)
(* saveCSV, and reading the saved file back.                               *)
(***************************************************************************)
\* the cell QString::number(x, 'f', 6) writes for a finite x: x in millionths,
\* rounded to the nearest
Dec6(x) ==
    LET n == Abs(x.v) * 1000000
        q == n \div x.d
        r == n % x.d
        m == IF 2 * r >= x.d THEN q + 1 ELSE q
    IN  [ok |-> TRUE, v |-> IF x.v < 0 THEN -m ELSE m, d |-> 1000000]

\* QString::split(sep)
RECURSIVE Split(_, _)
Split(text, sep) ==
    IF \A k \in 1..Len(text) : text[k] # sep THEN <<text>>
    ELSE LET k == CHOOSE j \in 1..Len(text) :
                      text[j] = sep /\ \A h \in 1..(j - 1) : text[h] # sep
         IN  <<SubSeq(text, 1, k - 1)>> \o Split(SubSeq(text, k + 1, Len(text)), sep)

\* the fields of a line as loadCSV splits it: by ',', else by tab, else by ';'
splitLine(line) ==
    IF Len(Split(line, 44)) >= 2 THEN Split(line, 44)
    ELSE IF Len(Split(line, 9)) >= 2 THEN Split(line, 9)
    ELSE Split(line, 59)

\* the header line saveCSV writes
RECURSIVE headerLine(_, _)
headerLine(channels, n) ==
    IF n = 0 THEN T_Time ELSE headerLine(channels, n - 1) \o <<44>> \o channels[n].label

\* the rate saveCSV divides the row number by
RECURSIVE timeRate(_, _)
timeRate(channels, n) ==
    IF n = 0 THEN 250
    ELSE IF channels[n].samplingRate > 0 THEN channels[n].samplingRate
    ELSE timeRate(channels, n - 1)

RECURSIVE maxSamples(_, _)
maxSamples(channels, n) ==
    IF n = 0 THEN 0 ELSE Max(maxSamples(channels, n - 1), Len(channels[n].data))

\* saveCSV: the file it leaves, as the lines loadCSV keeps and their fields
saveCSV(rec, writable) ==
    IF rec.channels = << >> \/ ~writable THEN [ok |-> FALSE, csv |-> CsvView(TRUE, << >>, << >>)]
    ELSE LET chs == rec.channels
             samplingRate == timeRate(chs, Len(chs))
             row(sample) ==
                 <<Dec6(Rat(sample, samplingRate))>> \o
                 [ch \in 1..Len(chs) |->
                     IF sample < Len(chs[ch].data) THEN Dec6(chs[ch].data[sample + 1])
                     ELSE Num(0)]
         IN  [ok |-> TRUE,
              csv |-> CsvView(FALSE, splitLine(headerLine(chs, Len(chs))),
                              [k \in 1..maxSamples(chs, Len(chs)) |-> row(k - 1)])]

\* EEGData::saveToFile on a path ending in .csv
SaveCSV(writable) ==
    LET r == saveCSV(Current, writable) IN
    /\ lastOp.op = "new"
    /\ lastOp' = [op |-> "save", ok |-> r.ok, csv |-> r.csv, saved |-> m_channels]
    /\ pre' = m_channels
    /\ UNCHANGED <<recVars, gBandpassFilter, nOps, bpCalls, ub, session>>

\* EEGData::loadFromFile on the file just saved
LoadSavedCSV(now) ==
    /\ lastOp.op = "save" /\ lastOp.ok
    /\ LET r == loadFromFile(File("csv", TRUE, EdfBroken("fixed", FALSE, 0), lastOp.csv),
                             Current, now, 0) IN
       /\ Commit(r.rec)
       /\ lastOp' = [op |-> "load", ok |-> r.ok, ext |-> "csv", at |-> r.at, declared |-> 0,
                     csv |-> lastOp.csv, saved |-> lastOp.saved]
       /\ ub' = (ub \/ r.ub)
    /\ pre' = NoSnapshot
    /\ UNCHANGED <<gBandpassFilter, nOps, bpCalls, session>>

CsvSamples == {Fin(-5), Rat(1, 3), Rat(-2, 3)}
CsvRates == {0, 250, 300}
CsvLabels == {T_C3, T_empty, T_A_comma_B}
CsvData == UNION {[1..n -> CsvSamples] : n \in 0..MaxCsvLen}

InitCsv ==
    /\ \E n \in 1..MaxCsvCh :
          \E labels \in [1..n -> CsvLabels], rates \in [1..n -> CsvRates],
             data \in [1..n -> CsvData] :
              m_channels = [c \in 1..n |-> EEGChannel(labels[c], T_uV, rates[c], data[c])]
    /\ m_patientInfo = T_patient
    /\ m_recordingInfo = T_rec
    /\ m_startDateTime = 1
    /\ gBandpassFilter = NoFilter
    /\ pre = NoSnapshot
    /\ lastOp = [op |-> "new"]
    /\ nOps = 0
    /\ bpCalls = {}
    /\ ub = FALSE
    /\ m_currentFilePath = ""
    /\ disk = << >>
    /\ asLoaded = << >>

NextCsv ==
    \/ \E writable \in BOOLEAN : SaveCSV(writable)
    \/ \E now \in Now : LoadSavedCSV(now)

SpecCsv == InitCsv /\ [][NextCsv]_vars

(***************************************************************************)
(* SignalProcessor: gain, offset, normalize, mean, removeDC, notchFilter,  *)
(* and the index-addressed operations of EEGData built on them.  The       *)
(* result of an EEGData operation is the channels it leaves and the        *)
(* signals it emitted.                                                     *)
(***************************************************************************)
applyGain(data, gain) == [i \in 1..Len(data) |-> dMul(data[i], gain)]

applyOffset(data, offset) == [i \in 1..Len(data) |-> dAdd(data[i], offset)]

\* std::minmax_element: the first smallest and the last largest of data[1..n]
RECURSIVE minElement(_, _)
minElement(data, n) ==
    IF n = 1 THEN data[1]
    ELSE LET m == minElement(data, n - 1) IN IF dLess(data[n], m) THEN data[n] ELSE m

RECURSIVE maxElement(_, _)
maxElement(data, n) ==
    IF n = 1 THEN data[1]
    ELSE LET m == maxElement(data, n - 1) IN IF dLess(data[n], m) THEN m ELSE data[n]

\* SignalProcessor::normalize with minVal = 0.0 and maxVal = 1.0
normalize(data) ==
    IF data = << >> THEN data
    ELSE LET currentMin == minElement(data, Len(data))
             currentMax == maxElement(data, Len(data))
             range == dSub(currentMax, currentMin)
             targetRange == dSub(Fin(1), Zero)
         IN  IF dLess(Zero, range)
             THEN [i \in 1..Len(data) |->
                      dAdd(Zero, dMul(dDiv(dSub(data[i], currentMin), range), targetRange))]
             ELSE data

\* std::accumulate(data.begin(), data.end(), 0.0)
RECURSIVE accumulate(_, _)
accumulate(data, n) == IF n = 0 THEN Zero ELSE dAdd(accumulate(data, n - 1), data[n])

\* SignalProcessor::mean
mean(data) == IF data = << >> THEN Zero ELSE dDiv(accumulate(data, Len(data)), Fin(Len(data)))

\* SignalProcessor::removeDC
removeDC(data) ==
    IF data = << >> THEN data
    ELSE LET m == dDiv(accumulate(data, Len(data)), Fin(Len(data)))
         IN  [i \in 1..Len(data) |-> dSub(data[i], m)]

\* cos(w0) and sin(w0) for w0 = 2 pi notchFreq / samplingRate, a whole number
\* of quarter turns for the rates and frequencies of this model
quarterTurns(notchFreq, samplingRate) == ((4 * notchFreq) \div samplingRate) % 4
cosTurns(q) == IF q = 0 THEN Fin(1) ELSE IF q = 2 THEN Fin(-1) ELSE Zero
sinTurns(q) == IF q = 1 THEN Fin(1) ELSE IF q = 3 THEN Fin(-1) ELSE Zero

\* y[0..n-1] of the notch recursion with coefficients k
RECURSIVE notchOutput(_, _, _)
notchOutput(data, k, n) ==
    IF n <= 2 THEN SubSeq(data, 1, n)
    ELSE LET y == notchOutput(data, k, n - 1)
             num == dSub(dSub(dAdd(dAdd(dMul(k.b0, data[n]), dMul(k.b1, data[n - 1])),
                                   dMul(k.b2, data[n - 2])),
                              dMul(k.a1, y[n - 1])),
                         dMul(k.a2, y[n - 2]))
         IN  Append(y, dDiv(num, k.a0))

\* SignalProcessor::notchFilter
notchFilter(data, samplingRate, notchFreq) ==
    IF Len(data) < 4 \/ samplingRate <= 0 THEN data
    ELSE LET q == quarterTurns(notchFreq, samplingRate)
             alpha == dDiv(sinTurns(q), Fin(2))
             k == [b0 |-> Fin(1), b1 |-> dMul(Fin(-2), cosTurns(q)), b2 |-> Fin(1),
                   a0 |-> dAdd(Fin(1), alpha), a1 |-> dMul(Fin(-2), cosTurns(q)),
                   a2 |-> dSub(Fin(1), alpha)]
         IN  notchOutput(data, k, Len(data))

OpResult(channels, emitted) == [channels |-> channels, emitted |-> emitted]

\* the test every index-addressed operation starts with
validIndex(channels, index) == ~(index < 0 \/ index >= Len(channels))

\* EEGData::removeChannel
EEGData_removeChannel(channels, index) ==
    IF index >= 0 /\ index < Len(channels)
    THEN OpResult(SubSeq(channels, 1, index) \o SubSeq(channels, index + 2, Len(channels)),
                  <<"channelRemoved">>)
    ELSE OpResult(channels, << >>)

\* EEGData::normalizeChannel
EEGData_normalizeChannel(channels, channelIndex) ==
    IF ~validIndex(channels, channelIndex) THEN OpResult(channels, << >>)
    ELSE OpResult([channels EXCEPT ![channelIndex + 1].data = normalize(@),
                                   ![channelIndex + 1].physicalMin = Zero,
                                   ![channelIndex + 1].physicalMax = Fin(1)],
                  <<"dataChanged">>)

\* EEGData::applyGain reaching every channel instead of the addressed one
EEGData_applyGain_everyChannel(channels, channelIndex, gain) ==
    IF ~validIndex(channels, channelIndex) THEN OpResult(channels, << >>)
    ELSE OpResult([c \in 1..Len(channels) |->
                      [channels[c] EXCEPT !.data = applyGain(@, gain),
                                          !.physicalMin = dMul(@, gain),
                                          !.physicalMax = dMul(@, gain)]],
                  <<"dataChanged">>)

\* EEGData::applyGain
EEGData_applyGain(channels, channelIndex, gain) ==
    IF ~validIndex(channels, channelIndex) THEN OpResult(channels, << >>)
    ELSE OpResult([channels EXCEPT ![channelIndex + 1].data = applyGain(@, gain),
                                   ![channelIndex + 1].physicalMin = dMul(@, gain),
                                   ![channelIndex + 1].physicalMax = dMul(@, gain)],
                  <<"dataChanged">>)

\* EEGData::applyOffset
EEGData_applyOffset(channels, channelIndex, offset) ==
    IF ~validIndex(channels, channelIndex) THEN OpResult(channels, << >>)
    ELSE OpResult([channels EXCEPT ![channelIndex + 1].data = applyOffset(@, offset),
                                   ![channelIndex + 1].physicalMin = dAdd(@, offset),
                                   ![channelIndex + 1].physicalMax = dAdd(@, offset)],
                  <<"dataChanged">>)

\* EEGData::removeDC: the mean is taken after SignalProcessor::removeDC has run
EEGData_removeDC(channels, channelIndex) ==
    IF ~validIndex(channels, channelIndex) THEN OpResult(channels, << >>)
    ELSE LET data == removeDC(channels[channelIndex + 1].data)
             m == mean(data)
         IN  OpResult([channels EXCEPT ![channelIndex + 1].data = data,
                                       ![channelIndex + 1].physicalMin = dSub(@, m),
                                       ![channelIndex + 1].physicalMax = dSub(@, m)],
                      <<"dataChanged">>)

\* EEGData::applyNotchFilter
EEGData_applyNotchFilter(channels, channelIndex, notchFreq) ==
    IF ~validIndex(channels, channelIndex) THEN OpResult(channels, << >>)
    ELSE OpResult([channels EXCEPT ![channelIndex + 1].data =
                       notchFilter(@, channels[channelIndex + 1].samplingRate, notchFreq)],
                  <<"dataChanged">>)

\* an index-addressed operation on the Recording, r being what it returned
IndexedOp(name, channelIndex, arg, r) ==
    /\ m_channels' = r.channels
    /\ pre' = m_channels
    /\ lastOp' = [op |-> name, index |-> channelIndex,
                  valid |-> validIndex(m_channels, channelIndex),
                  arg |-> arg, emitted |-> r.emitted]
    /\ nOps' = nOps + 1
    /\ UNCHANGED <<m_patientInfo, m_recordingInfo, m_startDateTime, gBandpassFilter,
                   bpCalls, ub, session>>

RemoveChannel(index) ==
    IndexedOp("removeChannel", index, Zero, EEGData_removeChannel(m_channels, index))

NormalizeChannel(channelIndex) ==
    IndexedOp("normalizeChannel", channelIndex, Zero,
              EEGData_normalizeChannel(m_channels, channelIndex))

ApplyGain(channelIndex, gain) ==
    IndexedOp("applyGain", channelIndex, gain, EEGData_applyGain(m_channels, channelIndex, gain))

ApplyOffset(channelIndex, offset) ==
    IndexedOp("applyOffset", channelIndex, offset,
              EEGData_applyOffset(m_channels, channelIndex, offset))

RemoveDC(channelIndex) ==
    IndexedOp("removeDC", channelIndex, Zero, EEGData_removeDC(m_channels, channelIndex))

ApplyNotchFilter(channelIndex, notchFreq) ==
    IndexedOp("applyNotchFilter", channelIndex, Fin(notchFreq),
              EEGData_applyNotchFilter(m_channels, channelIndex, notchFreq))

(***************************************************************************)
(* Saving, and the files on disk.  A path stands for its file; saveEDF     *)
(* writes the 256 bytes of the fixed header and nothing after them.        *)
(***************************************************************************)
Paths == {"a.edf", "b.edf", "b.csv"}

\* QFileInfo(filePath).suffix().toLower()
ExtOf(path) == IF path \in {"a.edf", "b.edf"} THEN "edf" ELSE "csv"

NoCsv == CsvView(TRUE, << >>, << >>)
NoFile(path) == File(ExtOf(path), FALSE, EdfBroken("fixed", FALSE, 0), NoCsv)
EmptyDisk == [p \in Paths |-> NoFile(p)]

\* saveEDF: the file it leaves ends where the signal headers would begin
saveEDF(rec, writable) ==
    IF rec.channels = << >> \/ ~writable THEN [ok |-> FALSE, file |-> NoFile("a.edf")]
    ELSE [ok |-> TRUE,
          file |-> File("edf", TRUE, EdfBroken("labels", TRUE, Len(rec.channels)), NoCsv)]

\* EEGFileHandler::saveFile
saveFile(path, rec, writable) ==
    IF ExtOf(path) = "edf" THEN saveEDF(rec, writable)
    ELSE LET r == saveCSV(rec, writable)
         IN  [ok |-> r.ok, file |-> File("csv", TRUE, EdfBroken("fixed", FALSE, 0), r.csv)]

\* the disk after EEGData::saveToFile(path)
Saved(path, rec, writable) ==
    IF saveFile(path, rec, writable).ok
    THEN [disk EXCEPT ![path] = saveFile(path, rec, writable).file]
    ELSE disk

(***************************************************************************)
(* MainWindow::onNotchFilterApply and NotchPreviewDialog.                  *)
(***************************************************************************)
\* the copy of a channel that EEGData::clone and EEGData::copyFrom make
copyChannel(ch) ==
    [EEGChannel(ch.label, T_empty, ch.samplingRate, ch.data)
        EXCEPT !.physicalMin = ch.physicalMin, !.physicalMax = ch.physicalMax,
               !.digitalMin = ch.digitalMin, !.digitalMax = ch.digitalMax]

\* EEGData::clone
clone(rec) ==
    Recording([c \in 1..Len(rec.channels) |-> copyChannel(rec.channels[c])],
              rec.patientInfo, rec.recordingInfo, rec.startDateTime)

\* EEGData::copyFrom: clear(), then the fields of other
copyFrom(rec, other, now) ==
    LET cleared == clear(rec, now)
    IN  [cleared EXCEPT !.patientInfo = other.patientInfo,
                        !.recordingInfo = other.recordingInfo,
                        !.startDateTime = other.startDateTime,
                        !.channels = [c \in 1..Len(other.channels) |->
                                         copyChannel(other.channels[c])]]

\* filteredData->applyNotchFilter(i, notchFreq) for i = 0 .. n - 1
RECURSIVE notchEveryChannel(_, _, _)
notchEveryChannel(channels, n, notchFreq) ==
    IF n = 0 THEN channels
    ELSE EEGData_applyNotchFilter(notchEveryChannel(channels, n - 1, notchFreq),
                                  n - 1, notchFreq).channels

\* the filteredData onNotchFilterApply builds: label, rate and samples of
\* every channel, in a Recording constructed at the time now
filteredData(rec, channel, notchFreq, now) ==
    LET copies == [c \in 1..Len(rec.channels) |->
                      EEGChannel(rec.channels[c].label, T_empty,
                                 rec.channels[c].samplingRate, rec.channels[c].data)]
    IN  Recording(IF channel >= 0
                  THEN EEGData_applyNotchFilter(copies, channel, notchFreq).channels
                  ELSE notchEveryChannel(copies, Len(copies), notchFreq),
                  T_empty, T_empty, now)

\* onNotchFilterApply with the button the dialog was closed by: "overwrite"
\* (confirmed), "saveAs" (to path) or "cancel"
OnNotchFilterApply(notchFreq, channel, reply, path, writable, now) ==
    /\ pre' = m_channels
    /\ nOps' = nOps + 1
    /\ IF m_channels = << >>
       THEN /\ lastOp' = [op |-> "notchPreview", shown |-> FALSE]
            /\ UNCHANGED <<recVars, disk>>
       ELSE LET m_tempData == clone(filteredData(Current, channel, notchFreq, now))
            IN  /\ lastOp' = [op |-> "notchPreview", shown |-> TRUE, reply |-> reply,
                              channel |-> channel, notchFreq |-> notchFreq,
                              before |-> Current]
                /\ IF reply = "overwrite"
                   THEN Commit(copyFrom(Current, m_tempData, now)) /\ UNCHANGED disk
                   ELSE IF reply = "saveAs"
                   THEN disk' = Saved(path, m_tempData, writable) /\ UNCHANGED recVars
                   ELSE UNCHANGED <<recVars, disk>>
    /\ UNCHANGED <<gBandpassFilter, bpCalls, ub, m_currentFilePath, asLoaded>>

(***************************************************************************)
(* One operation on a Recording of up to MaxOpsCh channels.                *)
(***************************************************************************)
OpsShapes == {"flat", "ramp", "zigzag"}
OpsRates == {0, 20, 40}
OpsLabels == <<T_C3, T_C4, T_Fz, T_F3>>
Gains == {Fin(2), Rat(-1, 2), Zero}
Offsets == {Fin(3), Rat(-1, 2)}
NotchFreqs == {50, 60}
OpsHighCuts == {1, 5}

\* the samples of channel c
OpsData(shape, len, c) ==
    [k \in 1..len |->
        IF shape = "flat" THEN Fin(4 + c)
        ELSE IF shape = "ramp" THEN Fin(3 * k - 5 + c)
        ELSE IF k % 2 = 0 THEN Fin(c) ELSE Rat(-(k + c), 2)]

InitOps ==
    /\ \E n \in 0..MaxOpsCh, shape \in OpsShapes, len \in 0..MaxOpsLen, rate \in OpsRates :
          m_channels = [c \in 1..n |-> EEGChannel(OpsLabels[c], T_uV, rate,
                                                  OpsData(shape, len, c))]
    /\ m_patientInfo = T_patient
    /\ m_recordingInfo = T_rec
    /\ m_startDateTime = 1
    /\ gBandpassFilter = NoFilter
    /\ pre = NoSnapshot
    /\ lastOp = [op |-> "new"]
    /\ nOps = 0
    /\ bpCalls = {}
    /\ ub = FALSE
    /\ m_currentFilePath = ""
    /\ disk = EmptyDisk
    /\ asLoaded = << >>

NextOps ==
    /\ nOps = 0
    /\ \/ \E index \in -1..MaxOpsCh :
             \/ RemoveChannel(index)
             \/ NormalizeChannel(index)
             \/ \E gain \in Gains : ApplyGain(index, gain)
             \/ \E offset \in Offsets : ApplyOffset(index, offset)
             \/ \E lowCut \in LowCuts, highCut \in OpsHighCuts : ApplyFilter(index, lowCut, highCut)
             \/ RemoveDC(index)
             \/ \E notchFreq \in NotchFreqs : ApplyNotchFilter(index, notchFreq)
             \/ \E startTime \in 0..1 : GetTimeSeries(index, startTime, TimeDen)
       \/ \E notchFreq \in NotchFreqs, channel \in -1..Max(0, Len(m_channels) - 1),
             now \in Now :
             \/ \E reply \in {"overwrite", "cancel"} :
                   OnNotchFilterApply(notchFreq, channel, reply, "b.csv", TRUE, now)
             \/ \E path \in Paths, writable \in BOOLEAN :
                   OnNotchFilterApply(notchFreq, channel, "saveAs", path, writable, now)

SpecOps == InitOps /\ [][NextOps]_vars

(***************************************************************************)
(* A session of MainWindow: open, montage, save, save as, reset montage.   *)
(* It starts with one EDF file on disk and nothing loaded.                 *)
(***************************************************************************)
\* MainWindow::onFileOpen with the path chosen in the dialog
OnFileOpen(path, now, junk) ==
    LET r == loadFromFile(disk[path], Current, now, junk) IN
    /\ nOps < MaxSession
    /\ nOps' = nOps + 1
    /\ Commit(r.rec)
    /\ pre' = NoSnapshot
    /\ lastOp' = [op |-> "open", ok |-> r.ok, path |-> path]
    /\ ub' = (ub \/ r.ub)
    /\ m_currentFilePath' = IF r.ok THEN path ELSE m_currentFilePath
    /\ asLoaded' = IF r.ok THEN r.rec.channels ELSE asLoaded
    /\ UNCHANGED <<gBandpassFilter, bpCalls, disk>>

\* MainWindow::onFileSaveAs with the path chosen in the dialog
OnFileSaveAs(path, writable) ==
    /\ nOps < MaxSession
    /\ nOps' = nOps + 1
    /\ pre' = m_channels
    /\ IF m_channels = << >>
       THEN /\ lastOp' = [op |-> "saveAs", ok |-> FALSE, path |-> path]
            /\ UNCHANGED <<disk, m_currentFilePath>>
       ELSE /\ lastOp' = [op |-> "saveAs", ok |-> saveFile(path, Current, writable).ok,
                          path |-> path]
            /\ disk' = Saved(path, Current, writable)
            /\ m_currentFilePath' = IF saveFile(path, Current, writable).ok
                                    THEN path ELSE m_currentFilePath
    /\ UNCHANGED <<recVars, gBandpassFilter, bpCalls, ub, asLoaded>>

\* MainWindow::onFileSave; path is what the Save As dialog would return
OnFileSave(confirmed, path, writable) ==
    IF m_channels # << >> /\ m_currentFilePath = "" THEN OnFileSaveAs(path, writable)
    ELSE
      /\ nOps < MaxSession
      /\ nOps' = nOps + 1
      /\ pre' = m_channels
      /\ IF m_channels = << >> \/ ~confirmed
         THEN /\ lastOp' = [op |-> "save", ok |-> FALSE, path |-> m_currentFilePath]
              /\ UNCHANGED disk
         ELSE /\ lastOp' = [op |-> "save", path |-> m_currentFilePath,
                            ok |-> saveFile(m_currentFilePath, Current, writable).ok]
              /\ disk' = Saved(m_currentFilePath, Current, writable)
      /\ UNCHANGED <<recVars, gBandpassFilter, bpCalls, ub, m_currentFilePath, asLoaded>>

\* MainWindow::onResetMontage: the result of loadFromFile is not looked at
OnResetMontage(now, junk) ==
    /\ nOps < MaxSession
    /\ nOps' = nOps + 1
    /\ pre' = m_channels
    /\ IF m_currentFilePath # ""
       THEN LET r == loadFromFile(disk[m_currentFilePath], Current, now, junk) IN
            /\ Commit(r.rec)
            /\ ub' = (ub \/ r.ub)
            /\ lastOp' = [op |-> "reset", ok |-> r.ok,
                          reported |-> "Data restored to original"]
       ELSE /\ lastOp' = [op |-> "reset", ok |-> FALSE,
                          reported |-> "No original file to restore from"]
            /\ UNCHANGED <<recVars, ub>>
    /\ UNCHANGED <<gBandpassFilter, bpCalls, session>>

InitSession ==
    /\ m_channels = << >>
    /\ m_patientInfo = T_empty
    /\ m_recordingInfo = T_empty
    /\ m_startDateTime = 100
    /\ gBandpassFilter = NoFilter
    /\ pre = NoSnapshot
    /\ lastOp = [op |-> "new"]
    /\ nOps = 0
    /\ bpCalls = {}
    /\ ub = FALSE
    /\ m_currentFilePath = ""
    /\ \E n \in 2..MaxSessionSig, records \in 1..2 :
          disk = [EmptyDisk EXCEPT
                     !["a.edf"] = EdfFileOf(EdfWide(n, records, <<T_C3, T_C4, T_F3, T_F4>>))]
    /\ asLoaded = << >>

NextSession ==
    \/ \E path \in Paths, now \in Now :
          \E junk \in (IF DividesByZero(disk[path]) THEN JunkInts ELSE {0}) :
              OnFileOpen(path, now, junk)
    \/ \E montage \in Montages :
          \E junk \in (IF OutOfBounds(DataOf(m_channels), LabelsOf(m_channels), montage)
                       THEN JunkVals ELSE {Zero}) : ApplyMontage(montage, junk)
    \/ \E confirmed \in BOOLEAN, path \in Paths, writable \in BOOLEAN :
          OnFileSave(confirmed, path, writable)
    \/ \E path \in Paths, writable \in BOOLEAN : OnFileSaveAs(path, writable)
    \/ \E now \in Now :
          \E junk \in (IF m_currentFilePath # "" /\ DividesByZero(disk[m_currentFilePath])
                       THEN JunkInts ELSE {0}) : OnResetMontage(now, junk)

SpecSession == InitSession /\ [][NextSession]_vars

(***************************************************************************)
(* Loading: properties of SpecLoad.                                        *)
(***************************************************************************)
FailedLoad == lastOp.op = "load" /\ ~lastOp.ok

\* C1: a load that returns false leaves the Recording untouched: channels,
\* patientInfo, recordingInfo and start timestamp are what they were before
\* the call.
C1_FailedLoadLeavesRecordingUntouched ==
    [][(lastOp'.op = "load" /\ ~lastOp'.ok) => UNCHANGED recVars]_vars

\* C2: whenever a load returns failure, wherever it returned and whatever
\* the extension, the Recording holds no channel: none of the file's channels
\* has been committed.
C2_NoPartialChannelSet == FailedLoad => m_channels = << >>

\* a file of unknown extension with a complete header declaring two signals:
\* loadEDF failed on a short sample read, loadCSV then failed on the header
C2_Witness ==
    /\ FailedLoad
    /\ lastOp.ext = "bin" /\ lastOp.declared = 2
    /\ lastOp.at = <<"sample", "format">>

(***************************************************************************)
(* Montages: properties of SpecMontage.                                    *)
(***************************************************************************)
AfterMontage(kind) == lastOp.op = "montage" /\ lastOp.kind = kind

\* what SignalProcessor::applyMontage returned in the last operation
MontageOutput == applyMontage(DataOf(pre), LabelsOf(pre), lastOp.kind, lastOp.junk)

\* C3: after EEGData::applyMontage(MontageBipolar) on a Recording for which
\* k pairs are formed, the Recording has exactly k channels and they hold the
\* montage output, none the samples from before the montage.
C3_BipolarReplacesChannelSet ==
    (AfterMontage("Bipolar") /\ Len(pre) >= 2
        /\ Len(MontageOutput) = Len(BipolarPairs(LabelsOf(pre)))) =>
        /\ Len(m_channels) = Len(BipolarPairs(LabelsOf(pre)))
        /\ DataOf(m_channels) = MontageOutput

\* C4: no montage, whatever the channel lengths, indexes a channel at a
\* sample index at or beyond that channel's own length.
C4_MontageStaysInBounds ==
    lastOp.op = "montage" =>
        \A a \in MontageAccesses(DataOf(pre), LabelsOf(pre), lastOp.kind) :
            a[2] < Len(pre[a[1]].data)

\* C10: Bipolar on fewer than 2 channels and Laplacian on fewer than 3 leave
\* the channel count and every sample, finite or not, as before the call.
C10_TooFewChannelsLeavesInput ==
    ((AfterMontage("Bipolar") /\ Len(pre) < 2) \/ (AfterMontage("Laplacian") /\ Len(pre) < 3)) =>
        /\ Len(MontageOutput) = Len(pre)
        /\ MontageOutput = DataOf(pre)
        /\ DataOf(m_channels) = DataOf(pre)

(***************************************************************************)
(* Spectrogram: properties of SpecSpectro.                                 *)
(***************************************************************************)
\* C5: for a channel of N samples the spectrogram uses floor((N - 256)/64) + 1
\* windows (mathematical floor); when that is less than 1, that is when
\* N < 256, it reports insufficient data and reads no sample; every index it
\* reads is below N.
C5_SpectrogramWindows ==
    (lastOp.op = "spectrogram" /\ lastOp.valid) =>
        LET N == Len(m_channels[lastOp.index + 1].data)
            W == ((N - windowSize) \div hopSize) + 1
        IN  /\ ~lastOp.cancelled => lastOp.reads = WindowReads(Max(W, 0))
            /\ (W < 1) = (N < windowSize)
            /\ W < 1 => (lastOp.insufficient /\ lastOp.reads = {})
            /\ \A r \in lastOp.reads : r < N

(***************************************************************************)
(* Band-pass filter: properties of SpecFilter.                             *)
(***************************************************************************)
SameArguments(a, b) ==
    /\ a.data = b.data /\ a.samplingRate = b.samplingRate
    /\ a.lowCutHz = b.lowCutHz /\ a.highCutHz = b.highCutHz

\* C6: the output of bandpassFilter is a function of its four arguments only:
\* two calls with identical arguments produce identical outputs, whatever was
\* filtered by earlier calls.
C6_BandpassIsFunctionOfArguments ==
    \A a \in bpCalls, b \in bpCalls : SameArguments(a, b) => a.out = b.out

\* the cutoffs violate a precondition of bandpassFilter at sampling rate fs
BadCutoffs(lowCut, highCut, fs) == lowCut <= 0 \/ highCut <= lowCut \/ 2 * highCut >= fs

ExtractedWindow ==
    /\ lastOp.op = "window" /\ lastOp.valid
    /\ m_channels[lastOp.index + 1].data # << >>
    /\ m_channels[lastOp.index + 1].samplingRate > 0

\* C8: for non-empty data and a positive rate, extractTimeWindow returns the
\* empty sequence for every window entirely outside the data's time span:
\* startTime + duration < 0, or startTime * rate >= length.
C8_OutOfRangeWindowIsEmpty ==
    ExtractedWindow =>
        LET channel == m_channels[lastOp.index + 1]
        IN  (\/ lastOp.startTime + lastOp.duration < 0
             \/ lastOp.startTime * channel.samplingRate >= Len(channel.data) * TimeDen)
            => lastOp.result = << >>

\* C9: for non-empty data and rate > 0 the result is data[s..e] with
\* s = max(0, floor(startTime * rate)), e = min(length - 1,
\* floor((startTime + duration) * rate)) when s <= e and empty otherwise; it
\* is never longer than the input and the input is left as it was.
C9_WindowIsFlooredClampedRange ==
    ExtractedWindow =>
        LET channel == m_channels[lastOp.index + 1]
            s == Max(0, (lastOp.startTime * channel.samplingRate) \div TimeDen)
            e == Min(Len(channel.data) - 1,
                     ((lastOp.startTime + lastOp.duration) * channel.samplingRate) \div TimeDen)
        IN  /\ lastOp.result = IF s <= e THEN SubSeq(channel.data, s + 1, e + 1) ELSE << >>
            /\ Len(lastOp.result) <= Len(channel.data)
            /\ m_channels = pre

(***************************************************************************)
(* Montages: finiteness, pairing and the bipolar differences               *)
(* (properties of SpecMontage).                                            *)
(***************************************************************************)
AllFinite(d) == \A ch \in 1..Len(d) : \A i \in 1..Len(d[ch]) : isfinite(d[ch][i])

EqualLength(d) == \A ch \in 1..Len(d) : Len(d[ch]) = Len(d[1])

\* C11: after SignalProcessor::applyMontage, whatever the montage kind, the
\* channel count and the input values, every sample of every channel of the
\* result is finite (here even for channels of equal length, where no index
\* leaves its channel).
C11_MontageOutputIsFinite ==
    (lastOp.op = "montage" /\ EqualLength(DataOf(pre))) => AllFinite(MontageOutput)

\* the parity of the numeric suffix of a label: of its last character, when
\* that is a digit
SuffixSide(label) ==
    IF label = << >> \/ ~IsDigit(label[Len(label)]) THEN "none"
    ELSE IF label[Len(label)] \in OddDigits THEN "left" ELSE "right"

\* C12: in Bipolar pairing a channel goes to the odd (left) set exactly when
\* the numeric suffix of its label is odd and to the even (right) set exactly
\* when it is even; digits elsewhere in the label do not count.
C12_SidesFollowSuffixParity ==
    (AfterMontage("Bipolar") /\ Len(pre) >= 2) =>
        \A i \in 1..Len(pre) : sideOf(pre[i].label) = SuffixSide(pre[i].label)

\* channel a minus channel b, sample by sample
Difference(d, a, b) == [i \in 1..Len(d[a]) |-> dSub(d[a][i], d[b][i])]

BipolarCase == AfterMontage("Bipolar") /\ Len(pre) >= 2
                   /\ EqualLength(DataOf(pre)) /\ AllFinite(DataOf(pre))

\* C13: when pairing by label forms k >= 1 pairs over channels of equal
\* length with finite samples, applyBipolarMontage yields exactly k channels,
\* the j-th being left_j - right_j sample by sample.
C13_BipolarYieldsPairDifferences ==
    (BipolarCase /\ LabelPairs(LabelsOf(pre)) # << >>) =>
        LET pairs == LabelPairs(LabelsOf(pre)) IN
        /\ Len(MontageOutput) = Len(pairs)
        /\ \A j \in 1..Len(pairs) :
              MontageOutput[j] = Difference(DataOf(pre), pairs[j][1], pairs[j][2])

\* C14: when no pair can be formed by label over n >= 2 channels of equal
\* length with finite samples, applyBipolarMontage yields exactly n - 1
\* channels, output i being channel i minus channel i + 1.
C14_FallbackPairsConsecutiveChannels ==
    (BipolarCase /\ LabelPairs(LabelsOf(pre)) = << >>) =>
        /\ Len(MontageOutput) = Len(pre) - 1
        /\ \A i \in 1..(Len(pre) - 1) :
              MontageOutput[i] = Difference(DataOf(pre), i, i + 1)


(***************************************************************************)
(* Average reference and Laplacian (properties of SpecFinite).  Doubles    *)
(* are exact here, so "is 0" stands for "is 0 up to rounding".             *)
(***************************************************************************)
FiniteCase(kind) == AfterMontage(kind) /\ EqualLength(DataOf(pre)) /\ AllFinite(DataOf(pre))

\* the sum over channels 1..ch of sample i
RECURSIVE SumAcross(_, _, _)
SumAcross(d, ch, i) == IF ch = 0 THEN Zero ELSE dAdd(SumAcross(d, ch - 1, i), d[ch][i])

\* C15: for channels of equal length with finite samples, after
\* applyAverageReference the new values sum to 0 across the channels at every
\* time index, and the channel count and every channel's length are as before.
C15_AverageReferenceSumsToZero ==
    FiniteCase("AverageReference") =>
        /\ Len(m_channels) = Len(pre)
        /\ \A ch \in 1..Len(pre) : Len(m_channels[ch].data) = Len(pre[ch].data)
        /\ Len(pre) >= 1 =>
              \A i \in 1..Len(pre[1].data) :
                  SumAcross(DataOf(m_channels), Len(m_channels), i) = Zero

C15_Witness ==
    /\ FiniteCase("AverageReference")
    /\ Len(pre) >= 2 /\ Len(pre[1].data) >= 1
    /\ \E ch \in 1..Len(pre) : m_channels[ch].data[1] # Zero

\* input[ch][i] minus the mean of the neighbours of ch that exist
NeighbourReferenced(d, ch, i) ==
    IF ch = 1 THEN dSub(d[1][i], d[2][i])
    ELSE IF ch = Len(d) THEN dSub(d[ch][i], d[ch - 1][i])
    ELSE dSub(d[ch][i], dDivInt(dAdd(d[ch - 1][i], d[ch + 1][i]), 2))

\* C16: for n >= 3 channels of equal length with finite samples,
\* applyLaplacianMontage sets every sample to the input minus the mean of the
\* existing immediate neighbours' inputs (an edge channel has one), never
\* of values updated in the same pass, and the output has n channels.
C16_LaplacianUsesInputNeighbours ==
    (FiniteCase("Laplacian") /\ Len(pre) >= 3) =>
        /\ Len(m_channels) = Len(pre)
        /\ \A ch \in 1..Len(pre) :
              m_channels[ch].data =
                  [i \in 1..Len(pre[ch].data) |-> NeighbourReferenced(DataOf(pre), ch, i)]

C16_Witness ==
    /\ FiniteCase("Laplacian") /\ Len(pre) >= 3 /\ Len(pre[1].data) >= 1
    /\ pre[1].data[1] # pre[2].data[1]
    /\ m_channels[2].data[1] # pre[2].data[1]

(***************************************************************************)
(* EDF decoding (properties of SpecDecode).                                *)
(***************************************************************************)
\* a load that returned true without undefined behaviour on the way
Decoded == lastOp.op = "load" /\ lastOp.ok /\ ~ub

\* the signals 1..n that are not annotation tracks, in order
RECURSIVE SignalsKept(_, _)
SignalsKept(e, n) ==
    IF n = 0 THEN << >>
    ELSE IF ContainsCI(e.labels[n], T_Annotation) THEN SignalsKept(e, n - 1)
    ELSE Append(SignalsKept(e, n - 1), n)

FloorDiv(a, b) == IF b > 0 THEN a \div b ELSE (-a) \div (-b)

\* R = floor((fileSize - headerEndOffset) / bytesPerRecord)
RecordsInFile(e) == FloorDiv(2 * Len(e.raw), 2 * SumSeq(e.samplesPerRecord))

\* C17: after a successful EDF load every loaded channel has exactly
\* samplesPerRecord[channel] * min(R, 10000) samples, R being
\* floor((fileSize - headerEndOffset) / bytesPerRecord).
C17_SamplesPerChannel ==
    Decoded =>
        LET e == lastOp.edf
            kept == SignalsKept(e, Min(e.numSignals, 32))
        IN  /\ Len(m_channels) = Len(kept)
            /\ \A c \in 1..Len(kept) :
                  Len(m_channels[c].data) =
                      e.samplesPerRecord[kept[c]] * Min(RecordsInFile(e), 10000)

\* the blocks of signal sig in records 0..(records - 1), one after another
RECURSIVE BlocksOf(_, _, _)
BlocksOf(e, sig, records) ==
    IF records <= 0 \/ e.samplesPerRecord[sig] <= 0 THEN << >>
    ELSE LET recordStart == (records - 1) * SumSeq(e.samplesPerRecord)
             blockStart == recordStart + SumSeq(SubSeq(e.samplesPerRecord, 1, sig - 1))
         IN  BlocksOf(e, sig, records - 1)
                 \o SubSeq(e.raw, blockStart + 1, blockStart + e.samplesPerRecord[sig])

\* C18: the raw samples decoded for a signal are its blocks in record order:
\* sample k is the (k mod p)-th value of the signal's block in record
\* floor(k / p), whatever the samplesPerRecord of the other signals.
C18_BlocksInRecordOrder ==
    Decoded =>
        LET e == lastOp.edf
            kept == SignalsKept(e, Min(e.numSignals, 32))
        IN  \A c \in 1..Min(Len(kept), Len(m_channels)) :
                LET raw == BlocksOf(e, kept[c], Min(RecordsInFile(e), 10000))
                IN  m_channels[c].data = Convert(raw, Calibration(e, kept[c], raw))

\* the raw samples of signal sig as loadEDF holds them
RawDecoded(e, sig) ==
    RawOf(e, sig, Min(TruncDiv(2 * Len(e.raw), 2 * SumSeq(e.samplesPerRecord)), 10000))

\* both ranges of signal sig are wider than 0.1 (the limits are in tenths)
UsableLimits(e, sig) ==
    Abs(e.digMax[sig] - e.digMin[sig]) > 1 /\ Abs(e.physMax[sig] - e.physMin[sig]) > 1

\* raw * scale + offset for scale = (physMax - physMin) / (digMax - digMin)
\* and offset = physMin - digMin * scale
Linear(e, sig, raw) ==
    LET dd == e.digMax[sig] - e.digMin[sig]
        pd == e.physMax[sig] - e.physMin[sig]
        num == (10 * raw - e.digMin[sig]) * pd + e.physMin[sig] * dd
    IN  IF dd > 0 THEN Rat(num, 10 * dd) ELSE Rat(-num, -10 * dd)

\* C19: for a signal whose digital and physical ranges are both wider than
\* 0.1 every decoded sample is raw * scale + offset with the scale and offset
\* of the header; raw = digMin decodes to physMin and raw = digMax to physMax.
C19_LinearCalibration ==
    Decoded =>
        LET e == lastOp.edf
            kept == SignalsKept(e, Min(e.numSignals, 32))
        IN  \A c \in 1..Min(Len(kept), Len(m_channels)) :
                UsableLimits(e, kept[c]) =>
                    LET raw == RawDecoded(e, kept[c])
                        data == m_channels[c].data
                    IN  /\ Len(data) = Len(raw)
                        /\ \A k \in 1..Len(raw) :
                              /\ data[k] = Linear(e, kept[c], raw[k])
                              /\ 10 * raw[k] = e.digMin[kept[c]] =>
                                     data[k] = Rat(e.physMin[kept[c]], 10)
                              /\ 10 * raw[k] = e.digMax[kept[c]] =>
                                     data[k] = Rat(e.physMax[kept[c]], 10)

C19_Witness ==
    /\ Decoded
    /\ Len(m_channels) >= 1
    /\ UsableLimits(lastOp.edf, 1)
    /\ \E k \in 1..Len(m_channels[1].data) :
          /\ 10 * RawDecoded(lastOp.edf, 1)[k] = lastOp.edf.digMin[1]
          /\ m_channels[1].data[k] # Fin(RawDecoded(lastOp.edf, 1)[k])

RangeOf(raw) == MaxOf(raw) - MinOf(raw)

\* raw[k] * scale - mean * scale for the raw mean and scale = num / den
Centred(raw, k, num, den) ==
    dSub(dMulInt(Rat(num, den), raw[k]), dDivInt(dMulInt(Rat(num, den), SumSeq(raw)), Len(raw)))

\* the decoded samples under the fallback for corrupted limits
Fallback(raw) ==
    [k \in 1..Len(raw) |->
        IF Len(raw) <= 10 THEN Fin(raw[k])
        ELSE IF RangeOf(raw) < 100 THEN Fin(raw[k])
        ELSE IF RangeOf(raw) > 30000 THEN Centred(raw, k, 200, 65536)
        ELSE Centred(raw, k, 100, RangeOf(raw))]

ChannelLabel(e, sig) == IF e.labels[sig] = T_empty THEN T_CH \o NumberText(sig) ELSE e.labels[sig]

\* C21: after a successful EDF load the Recording holds at most 32 channels,
\* none with a label containing "Annotation" in any letter case, and the
\* channels are in the order of their signals in the file.
C21_ChannelsKeptInOrder ==
    Decoded =>
        LET e == lastOp.edf
            kept == SignalsKept(e, Min(e.numSignals, 32))
        IN  /\ Len(m_channels) <= 32
            /\ \A c \in 1..Len(m_channels) : ~ContainsCI(m_channels[c].label, T_Annotation)
            /\ Len(m_channels) = Len(kept)
            /\ \A c \in 1..Len(kept) : m_channels[c].label = ChannelLabel(e, kept[c])

C21_Witness ==
    /\ Decoded
    /\ lastOp.edf.numSignals > 32
    /\ \E i \in 1..32 : lastOp.edf.labels[i] = T_annotations
    /\ Len(m_channels) = 24
    /\ Len(m_channels[24].data) = 2

\* C22: every channel committed by a successful load, EDF or CSV, has a
\* samplingRate greater than zero.
C22_LoadedRatesPositive ==
    (lastOp.op = "load" /\ lastOp.ok /\ ~ub) =>
        \A c \in 1..Len(m_channels) : m_channels[c].samplingRate > 0

\* loadEDF got past the header and evaluated dataSize / bytesPerRecord
ReachedRecordCount == lastOp.op = "load" /\ lastOp.at \in {<<"sample">>, <<"end">>}

\* C26: loadEDF never divides by zero: where it evaluates
\* dataSize / bytesPerRecord, bytesPerRecord is not zero.
C26_RecordCountDivisorNonZero ==
    ReachedRecordCount => 2 * SumSeq(lastOp.edf.samplesPerRecord) # 0

(***************************************************************************)
(* CSV: properties of SpecCsv.                                             *)
(***************************************************************************)
\* the Recording was saved as CSV and the file was loaded back
RoundTrip == lastOp.op = "load" /\ lastOp.ext = "csv" /\ lastOp.ok

\* b is a multiple of one millionth at most half a millionth from a
NearestMillionth(a, b) ==
    /\ isfinite(b) /\ 1000000 % b.d = 0
    /\ LET diff == dSub(a, b) IN 2000000 * Abs(diff.v) <= diff.d

SameLengths(channels) ==
    \A a, b \in 1..Len(channels) : Len(channels[a].data) = Len(channels[b].data)

\* C23: a Recording of N >= 1 channels of M samples each, saved as CSV and
\* loaded back, has N channels of M samples each, in the saved order, every
\* sample being the saved value rounded to six decimals.
C23_CsvRoundTrip ==
    (RoundTrip /\ SameLengths(lastOp.saved)) =>
        /\ Len(m_channels) = Len(lastOp.saved)
        /\ \A c \in 1..Len(lastOp.saved) :
              /\ c <= Len(m_channels)
              /\ Len(m_channels[c].data) = Len(lastOp.saved[c].data)
              /\ \A k \in 1..Len(lastOp.saved[c].data) :
                    k <= Len(m_channels[c].data) /\
                    NearestMillionth(lastOp.saved[c].data[k], m_channels[c].data[k])

\* C24: the time column of row k of a saved CSV is k / r, r being the first
\* channel's sampling rate when that is positive and 250 otherwise.
C24_TimeColumnUsesFirstRate ==
    (lastOp.op = "save" /\ lastOp.ok) =>
        LET r == IF m_channels[1].samplingRate > 0 THEN m_channels[1].samplingRate ELSE 250
        IN  \A k \in 1..Len(lastOp.csv.rows) :
               LET cell == lastOp.csv.rows[k][1]
               IN  cell.ok /\ NearestMillionth(Rat(k - 1, r), Rat(cell.v, cell.d))

(***************************************************************************)
(* Index-addressed operations and the notch preview: properties of         *)
(* SpecOps.                                                                *)
(***************************************************************************)
IndexedOps ==
    {"removeChannel", "normalizeChannel", "applyGain", "applyOffset", "filter", "removeDC",
     "applyNotchFilter", "window"}

\* C25: an index-addressed operation given an out-of-range index leaves the
\* whole Recording unchanged and emits no signal; normalizeChannel, applyGain,
\* applyOffset, applyFilter, removeDC and applyNotchFilter given a valid
\* index i leave the number of channels, their order and every channel other
\* than i unchanged.
C25_OnlyAddressedChannelChanges ==
    [][(lastOp'.op \in IndexedOps) =>
          IF ~validIndex(m_channels, lastOp'.index)
          THEN (UNCHANGED recVars) /\ lastOp'.emitted = << >>
          ELSE lastOp'.op \in (IndexedOps \ {"removeChannel", "window"}) =>
                  /\ Len(m_channels') = Len(m_channels)
                  /\ \A j \in 1..Len(m_channels) :
                        j # lastOp'.index + 1 => m_channels'[j] = m_channels[j]]_vars

\* a gain was applied to the first of several channels and changed it
C25_Witness ==
    /\ lastOp.op = "applyGain" /\ lastOp.valid /\ lastOp.index = 0
    /\ Len(m_channels) >= 2
    /\ m_channels[1] # pre[1]
    /\ m_channels[2] = pre[2]

\* a <= b on doubles
dLeq(a, b) == a = b \/ dLess(a, b)

\* C27: after normalizeChannel(i) on a valid index the channel's physical
\* range is [0, 1] and every sample of the channel lies within it.
C27_NormalizedWithinRange ==
    (lastOp.op = "normalizeChannel" /\ lastOp.valid) =>
        LET ch == m_channels[lastOp.index + 1]
        IN  /\ ch.physicalMin = Zero /\ ch.physicalMax = Fin(1)
            /\ \A k \in 1..Len(ch.data) :
                  dLeq(ch.physicalMin, ch.data[k]) /\ dLeq(ch.data[k], ch.physicalMax)

\* C28: removeDC(i) on a valid index shifts physicalMin and physicalMax by
\* the mean the channel had before the call, as it shifts the samples.
C28_RemoveDCShiftsRange ==
    (lastOp.op = "removeDC" /\ lastOp.valid) =>
        LET was == pre[lastOp.index + 1]
            ch == m_channels[lastOp.index + 1]
            m == mean(was.data)
        IN  /\ ch.data = [k \in 1..Len(was.data) |-> dSub(was.data[k], m)]
            /\ ch.physicalMin = dSub(was.physicalMin, m)
            /\ ch.physicalMax = dSub(was.physicalMax, m)

\* what a channel is apart from its samples
Described(ch) == [ch EXCEPT !.data = << >>]

\* C30: confirming "Overwrite" in the notch preview changes sample data
\* only: the number of channels, every channel's label, unit, sampling rate
\* and physical and digital ranges, and the Recording's patientInfo,
\* recordingInfo and start timestamp are what they were before the request.
C30_OverwriteChangesSamplesOnly ==
    (lastOp.op = "notchPreview" /\ lastOp.shown /\ lastOp.reply = "overwrite") =>
        /\ Len(m_channels) = Len(lastOp.before.channels)
        /\ \A c \in 1..Len(lastOp.before.channels) :
              c <= Len(m_channels) /\
              Described(m_channels[c]) = Described(lastOp.before.channels[c])
        /\ m_patientInfo = lastOp.before.patientInfo
        /\ m_recordingInfo = lastOp.before.recordingInfo
        /\ m_startDateTime = lastOp.before.startDateTime

(***************************************************************************)
(* Reset montage: property of SpecSession.                                 *)
(***************************************************************************)
\* C29: when onResetMontage reports "Data restored to original", the
\* Recording holds the channel data as the file was originally loaded,
\* whatever opens, montages, saves and save-as came before.
C29_ResetRestoresLoadedData ==
    (lastOp.op = "reset" /\ lastOp.reported = "Data restored to original") =>
        DataOf(m_channels) = DataOf(asLoaded)

=============================================================================
